---- MODULE Spec2Model ----
(***************************************************************************)
(* Model of the chunking -> deduplication stages of the document pipeline  *)
(* (src/src/scraper/chunk_texts.py, src/src/scraper/remove_duplicate_      *)
(* chunks.py), of the index builder (src/src/embeddings/                   *)
(* build_faiss_index_local.py) and of the query side (src/src/rag/         *)
(* rag_query_openai.py, src/src/server/rag_api.py).  A Python string is a  *)
(* sequence of one-character strings, so that trimming, splitting,         *)
(* joining, slugging and the lexicographic order of file names are         *)
(* computed, not assumed.  An embedding is a row of whole numbers in units *)
(* of 1/Unit, so that normalisation and inner products are computed.       *)
(***************************************************************************)
EXTENDS Integers, Sequences, FiniteSets, TLC

VARIABLES
    \* ---- chunk_words(words, chunk_size, overlap), one call ----
    words,          \* the argument: a sequence of words
    chunk_size,     \* the argument chunk_size
    overlap,        \* the argument overlap
    start,          \* local `start`
    chunks,         \* local `chunks`: sequence of <<start, end, chunk_text>>
    cw_pc           \* "entry" | "loop" | "done"

cwVars == <<words, chunk_size, overlap, start, chunks, cw_pc>>

VARIABLES
    \* ---- the files of data/clean ----
    input,          \* INPUT_FILE: the sequence of its lines
    OUT_JSONL,      \* data/clean/deduped_chunks.jsonl: [exists, lines]
    BACKUP,         \* data/clean/deduped_chunks.jsonl.bak: [exists, lines]
    chunkDir,       \* data/clean/chunks: [exists, files: file name -> content]
    \* ---- module configuration of chunk_texts.py ----
    cfg,            \* <<CHUNK_WORDS, OVERLAP_WORDS>> as set in the module
    \* ---- the stage that is running ----
    pc,             \* "idle" | "ch_lines" | "dd_scan"
    finished,       \* the stage that completed last
    \* ---- chunk_texts.main locals ----
    line_no,        \* lines of `inf` consumed
    processed,
    total_chunks,
    per_doc_counts,
    \* ---- remove_duplicate_chunks.main locals ----
    scan,           \* sorted(CHUNKS_DIR.glob("*.json")) not yet visited
    seen,           \* dict in insertion order: [hash, file, files]
    total,
    unique,
    report,         \* what main prints at its end, NULL before
    \* ---- history: which stage wrote the file ----
    jsonl_by,       \* writer of OUT_JSONL: "none" | "other" | "chunker" | "dedup"
    backup_by       \* writer of the content copied to BACKUP

fileVars == <<input, OUT_JSONL, BACKUP, chunkDir, cfg, jsonl_by, backup_by>>
chunkerVars == <<line_no, processed, total_chunks, per_doc_counts>>
dedupVars == <<scan, seen, total, unique, report>>
pipeVars == <<fileVars, pc, finished, chunkerVars, dedupVars>>

VARIABLES
    \* ---- the files of data/index ----
    FAISS_PATH,     \* data/index/faiss.index: [exists, d, vectors, build, whole]
    META_PATH,      \* data/index/meta.jsonl: [exists, lines, build]
    \* ---- build_faiss_index_local.main, build_index and save_index ----
    bi_pc,          \* "idle" | "batches" | "write_index" | "open_meta" | "write_meta"
    batch_size,     \* the argument batch_size of build_index, BATCH_SIZE unless given
    records,        \* what load_records returned
    batch_i,        \* the batch counter `i` of `for i in range(n_batches)`
    vectors,        \* local `vectors`: one array of rows per batch
    metas,          \* local `metas`
    written,        \* metadata lines written by save_index so far
    builds,         \* number of index builds started (history)
    bi_out,         \* how the last build ended, "none" before
    \* ---- rag_query_openai.retrieve, one call at a time ----
    EMBED_MODEL,    \* the encoder the query side is configured with
    rq_pc,          \* "idle" | "read_meta" | "search"
    query,          \* the argument query
    top_k,          \* the argument top_k
    r_index,        \* local `index`, as read from FAISS_PATH, while the call runs
    r_metas,        \* local `metas`, as load_meta returned it, while the call runs
    ids,            \* local `ids`: the positions index.search returned
    results,        \* the list returned, <<>> when the call raised
    rq_out,         \* "none" | "returned" | the exception raised
    \* ---- rag_api.ask_question ----
    ask_pc,         \* "idle" | "retrieve" | "generate"
    response,       \* what the caller of ask_question got
    \* ---- rag_query_openai.main, one pass of its loop ----
    MAX_CONTEXT_CHARS,  \* the budget configured (RAG_MAX_CONTEXT_CHARS)
    DEBUG_RAW,      \* RAG_DEBUG_RAW is "1"
    run_pc,         \* "unused" | "idle" | "called" | "done"
    user_prompt,    \* local `user_prompt`
    content,        \* local `content`: the text of the first choice
    preface,        \* local `preface`
    code,           \* local `code`
    printed         \* what the pass has printed so far

indexFiles == <<FAISS_PATH, META_PATH>>
buildVars == <<bi_pc, batch_size, records, batch_i, vectors, metas, written, builds, bi_out>>
retrieveVars == <<EMBED_MODEL, rq_pc, query, top_k, r_index, r_metas, ids, results, rq_out>>
askVars == <<ask_pc, response>>
ixVars == <<indexFiles, buildVars, retrieveVars, askVars>>

runVars == <<MAX_CONTEXT_CHARS, DEBUG_RAW, run_pc, user_prompt, content, preface, code, printed>>

VARIABLES
    \* ---- scrape_fragments_json.scrape_all_fragments ----
    OUTPUT_JSONL,   \* data/clean/scraped_fragments.jsonl: [exists, lines]
    fragment_ids,   \* the ids collected from the page
    frag_idx,       \* `idx` of the outer loop, from 1
    attempt,        \* `attempt` of the inner loop, from 1
    success,
    last_html,      \* [tag, text]: what extract_from_fragment_html finds in it
    page,           \* the page as the running attempt finds it
    saved_total,    \* local `total`
    logged_total,   \* the total of the closing log line, -1 before
    sf_pc           \* "unused" | "idle" | "attempt" | "exhausted" | "next" | "close" | "done"

scrapeVars == <<OUTPUT_JSONL, fragment_ids, frag_idx, attempt, success, last_html, page,
                saved_total, logged_total, sf_pc>>

vars == <<cwVars, pipeVars, ixVars, runVars, scrapeVars>>

\* ------------------------------------------------------------------ bounds
MaxWords == 7       \* longest word sequence drawn for chunk_words
MaxChunkSize == 4   \* largest chunk_size drawn for chunk_words
MaxRecs == 2        \* most lines of the chunker's input file
MaxFiles == 3       \* most *.json files of a chunks folder given to the deduplicator
SmallChunk == 2     \* a CHUNK_WORDS small enough for the texts drawn to span windows
SmallOverlap == 1   \* the OVERLAP_WORDS that goes with it
MaxIxRecs == 3      \* most records of the file the index is built from
MaxBatch == 2       \* largest batch size drawn beside BATCH_SIZE
MaxTopK == 3        \* largest top_k a retrieve call is given
MaxBuilds == 1      \* most index builds started in one behaviour
MaxShown == 2       \* most results build_prompt is given
SmallBudget == 3    \* a MAX_CONTEXT_CHARS small enough for the texts drawn to be cut
MaxLines == 4       \* most lines of a generated answer without a fence

\* --------------------------------------------------------- program constants
CHUNK_WORDS == 300
OVERLAP_WORDS == 50
BATCH_SIZE == 64
TOP_K == 1
MODEL_NAME == "all-MiniLM-L6-v2"
DEFAULT_MAX_CONTEXT_CHARS == 1500

\* ------------------------------------------------------------------ strings
\* Python None / a key that is absent: a value no string equals (a string is a
\* sequence of one-character strings)
NULL == <<"None">>

\* the character U+0060, which a string of this notation cannot hold
BACKTICK == "U+0060"

Min(a, b) == IF a < b THEN a ELSE b

\* str(i) for i >= 0
RECURSIVE Digits(_)
Digits(i) ==
    LET d == <<"0", "1", "2", "3", "4", "5", "6", "7", "8", "9">>[(i % 10) + 1]
    IN  IF i < 10 THEN <<d>> ELSE Append(Digits(i \div 10), d)

\* sep.join(parts)
RECURSIVE Join(_, _)
Join(sep, parts) ==
    IF parts = <<>> THEN <<>>
    ELSE IF Len(parts) = 1 THEN parts[1]
    ELSE LET h == Len(parts) \div 2
         IN  Join(sep, SubSeq(parts, 1, h)) \o sep \o Join(sep, SubSeq(parts, h + 1, Len(parts)))

\* words[a:b] for 0 <= a <= b <= len(words)
Slice(s, a, b) == SubSeq(s, a + 1, Min(b, Len(s)))

\* A path that does not exist, a file holding `lines`, a folder holding `files`
NoFiles == [n \in {} |-> <<>>]
NoFile == [exists |-> FALSE, lines |-> <<>>]
NoDir == [exists |-> FALSE, files |-> NoFiles]
File(lines) == [exists |-> TRUE, lines |-> lines]
Dir(files) == [exists |-> TRUE, files |-> files]

\* Python truthiness of an optional string, and `a or b`
Falsy(v) == v = NULL \/ v = <<>>
Or(a, b) == IF Falsy(a) THEN b ELSE a

\* characters matched by \s (those that occur in the texts drawn)
WS == {" ", "\t", "\n", "\r"}

\* number of leading characters of s that are in `set`
RECURSIVE RunLen(_, _)
RunLen(s, set) == IF s = <<>> \/ s[1] \notin set THEN 0 ELSE 1 + RunLen(Tail(s), set)

Drop(s, n) == SubSeq(s, n + 1, Len(s))

\* s.lstrip(set), s.rstrip(set), s.strip(set)
LStrip(s, set) == Drop(s, RunLen(s, set))
RECURSIVE RStrip(_, _)
RStrip(s, set) ==
    IF s = <<>> \/ s[Len(s)] \notin set THEN s ELSE RStrip(SubSeq(s, 1, Len(s) - 1), set)
Strip(s, set) == RStrip(LStrip(s, set), set)

\* text.replace("\r\n", "\n")
RECURSIVE ReplaceCRLF(_)
ReplaceCRLF(s) ==
    IF s = <<>> THEN <<>>
    ELSE IF Len(s) >= 2 /\ s[1] = "\r" /\ s[2] = "\n" THEN <<"\n">> \o ReplaceCRLF(Drop(s, 2))
    ELSE <<s[1]>> \o ReplaceCRLF(Tail(s))

\* text.replace("\r", "\n")
ReplaceCR(s) == [i \in 1..Len(s) |-> IF s[i] = "\r" THEN "\n" ELSE s[i]]

\* re.sub(r"[set]{k,}", repl, s): every maximal run of at least k characters
\* of `set` becomes repl
RECURSIVE CollapseRuns(_, _, _, _)
CollapseRuns(s, set, k, repl) ==
    IF s = <<>> THEN <<>>
    ELSE LET r == RunLen(s, set)
         IN  IF r >= k THEN repl \o CollapseRuns(Drop(s, r), set, k, repl)
             ELSE IF r > 0 THEN SubSeq(s, 1, r) \o CollapseRuns(Drop(s, r), set, k, repl)
             ELSE <<s[1]>> \o CollapseRuns(Tail(s), set, k, repl)

normalize_whitespace(text) ==
    IF Falsy(text) THEN <<>>
    ELSE LET t1 == ReplaceCR(ReplaceCRLF(text))
             t2 == CollapseRuns(t1, {"\n"}, 3, <<"\n", "\n">>)
             t3 == CollapseRuns(t2, {" ", "\t"}, 2, <<" ">>)
         IN  Strip(t3, WS)

\* [w for w in re.split(r"\s+", text) if w]
RECURSIVE SplitWS(_)
SplitWS(s) ==
    LET t == LStrip(s, WS)
    IN  IF t = <<>> THEN <<>>
        ELSE LET n == RunLen(t, {c \in {t[i] : i \in 1..Len(t)} : c \notin WS})
             IN  <<SubSeq(t, 1, n)>> \o SplitWS(Drop(t, n))

words_from_text(text) ==
    LET t == normalize_whitespace(text)
    IN  IF t = <<>> THEN <<>> ELSE SplitWS(t)

\* str.lower() on the letters that occur in the texts drawn
LowerChar(c) == CASE c = "A" -> "a" [] c = "B" -> "b" [] OTHER -> c
Lower(s) == [i \in 1..Len(s) |-> LowerChar(s[i])]

\* [\w\-_.]: word characters, hyphen, underscore, dot
SlugChars ==
    {"a", "b", "c", "d", "e", "f", "g", "h", "i", "j", "k", "l", "m", "n", "o", "p", "q",
     "r", "s", "t", "u", "v", "w", "x", "y", "z", "A", "B",
     "0", "1", "2", "3", "4", "5", "6", "7", "8", "9", "-", "_", "."}

safe_slug(text, fallback) ==
    LET s0 == Lower(Or(text, fallback))
        s1 == SubSeq(s0, 1, Min(120, Len(s0)))
        s2 == [i \in 1..Len(s1) |-> IF s1[i] \in SlugChars THEN s1[i] ELSE "_"]
        s3 == CollapseRuns(s2, {"_"}, 1, <<"_">>)
    IN  Strip(s3, {"_"})

\* ------------------------------------------------------------- chunk_words
\* a window that is not clamped to the end of the words
CWEnd_unclamped(st, cs, N) == st + cs

\* end = min(start + chunk_size, N)
CWEnd(st, cs, N) == Min(st + cs, N)

\* the overlap added instead of subtracted
CWNextStart_gap(end, ov) == end + ov

\* the clamp written with min for max: start = min(0, end - overlap)
CWNextStart_minclamp(end, ov) == IF end - ov < 0 THEN end - ov ELSE 0

\* start = end - overlap; if start < 0: start = 0
CWNextStart(end, ov) == IF end - ov < 0 THEN 0 ELSE end - ov

\* chunks.append((start, end, " ".join(words[start:end])))
CWAppend(acc, ws, st, end) == Append(acc, <<st, end, Join(<<" ">>, Slice(ws, st, end))>>)

\* The whole call, as main() uses it: the loop run to its end.
RECURSIVE CWLoop(_, _, _, _, _)
CWLoop(ws, cs, ov, st, acc) ==
    IF ~(st < Len(ws)) THEN acc
    ELSE LET end == CWEnd(st, cs, Len(ws))
             acc2 == CWAppend(acc, ws, st, end)
         IN  IF end >= Len(ws) THEN acc2
             ELSE CWLoop(ws, cs, ov, CWNextStart(end, ov), acc2)

chunk_words(ws, cs, ov) == IF ws = <<>> THEN <<>> ELSE CWLoop(ws, cs, ov, 0, <<>>)

\* The word sequences a call is given: word i is the text of the number i.
WordsOfLen(n) == [i \in 1..n |-> Digits(i)]

\* The calls drawn: every small configuration with 0 <= overlap < chunk_size,
\* and the shipped defaults with the 700-word text.
CWSmallInputs ==
    { <<n, cs, ov>> \in (0..MaxWords) \X (1..MaxChunkSize) \X (0..MaxChunkSize) : ov < cs }
CWInputs == CWSmallInputs \cup { <<700, CHUNK_WORDS, OVERLAP_WORDS>> }

\* data/index before any build, and the index stage and the query side at rest
NoIndex == [exists |-> FALSE, d |-> 0, vectors |-> <<>>, build |-> 0, whole |-> FALSE]
NoMeta == [exists |-> FALSE, lines |-> <<>>, build |-> 0]

\* What a caller of ask_question holds: nothing yet, the body of the reply, or
\* the exception that left ask_question
NoResponse == [kind |-> "none"]
Raised(exception) == [kind |-> "error", error |-> exception]

BuildIdle ==
    /\ bi_pc = "idle" /\ records = <<>> /\ batch_i = 0
    /\ vectors = <<>> /\ metas = <<>> /\ written = 0 /\ bi_out = "none"

QueryIdle ==
    /\ rq_pc = "idle" /\ query = <<>> /\ top_k = TOP_K
    /\ r_index = NoIndex /\ r_metas = <<>> /\ ids = <<>> /\ results = <<>> /\ rq_out = "none"
    /\ ask_pc = "idle" /\ response = NoResponse

\* what the scraper's locals hold outside a run
NoHtml == [empty |-> TRUE, tag |-> NULL, text |-> <<>>]
NoPage == [state |-> "closed", html |-> NoHtml]
ScrapeLocalsInit ==
    /\ fragment_ids = <<>> /\ frag_idx = 0 /\ attempt = 0 /\ success = FALSE
    /\ last_html = NoHtml /\ page = NoPage /\ saved_total = 0 /\ logged_total = -1
ScrapeUnused == OUTPUT_JSONL = NoFile /\ ScrapeLocalsInit /\ sf_pc = "unused"

RunUnused ==
    /\ MAX_CONTEXT_CHARS = DEFAULT_MAX_CONTEXT_CHARS /\ DEBUG_RAW = FALSE /\ run_pc = "unused"
    /\ user_prompt = <<>> /\ content = <<>> /\ preface = NULL /\ code = NULL
    /\ printed = <<>>

IxUnused ==
    /\ FAISS_PATH = NoIndex /\ META_PATH = NoMeta /\ builds = 0
    /\ EMBED_MODEL = MODEL_NAME /\ batch_size = BATCH_SIZE
    /\ BuildIdle
    /\ QueryIdle

\* The pipeline's state while only chunk_words is exercised: nothing on disk,
\* no stage running.
PipeUnused ==
    /\ input = <<>> /\ OUT_JSONL = NoFile /\ BACKUP = NoFile /\ chunkDir = NoDir
    /\ cfg = <<CHUNK_WORDS, OVERLAP_WORDS>>
    /\ jsonl_by = "none" /\ backup_by = "none"
    /\ pc = "unused" /\ finished = "none"
    /\ line_no = 0 /\ processed = 0 /\ total_chunks = 0 /\ per_doc_counts = <<>>
    /\ scan = <<>> /\ seen = <<>> /\ total = 0 /\ unique = 0 /\ report = NULL
    /\ IxUnused

CWCall(inputs) ==
    /\ PipeUnused
    /\ RunUnused
    /\ ScrapeUnused
    /\ \E in \in inputs :
          /\ words = WordsOfLen(in[1])
          /\ chunk_size = in[2]
          /\ overlap = in[3]
    /\ start = 0
    /\ chunks = <<>>
    /\ cw_pc = "entry"

InitCW == CWCall(CWInputs)

\* if not words: return []; chunks = []; N = len(words); start = 0
CWEnter ==
    /\ cw_pc = "entry"
    /\ cw_pc' = IF words = <<>> THEN "done" ELSE "loop"
    /\ start' = 0
    /\ chunks' = <<>>
    /\ UNCHANGED <<words, chunk_size, overlap, pipeVars, ixVars, scrapeVars, runVars>>

\* one evaluation of the while condition and, when it holds, of the loop body
CWIter ==
    /\ cw_pc = "loop"
    /\ IF start < Len(words)
       THEN LET end == CWEnd(start, chunk_size, Len(words))
            IN  /\ chunks' = CWAppend(chunks, words, start, end)
                /\ IF end >= Len(words)
                   THEN /\ cw_pc' = "done"
                        /\ start' = start
                   ELSE /\ cw_pc' = "loop"
                        /\ start' = CWNextStart(end, overlap)
       ELSE /\ cw_pc' = "done"
            /\ UNCHANGED <<start, chunks>>
    /\ UNCHANGED <<words, chunk_size, overlap, pipeVars, ixVars, scrapeVars, runVars>>

NextCW == CWEnter \/ CWIter

SpecCW == InitCW /\ [][NextCW]_vars

\* The loop runs on its own thread of control: nothing can keep an enabled
\* iteration from being taken.
SpecCWFair == CWCall(CWSmallInputs) /\ [][NextCW]_vars /\ WF_vars(NextCW)

\* ---------------------------------------------------------- chunk_texts.main
\* A line json.loads rejects
MALFORMED == [malformed |-> TRUE]

\* rec.get(key) of a parsed line: the keys main() reads, NULL when absent
Rec(fragment, fragment_id, title, slug, inner_text, full_text, text) ==
    [fragment |-> fragment, fragment_id |-> fragment_id, title |-> title, slug |-> slug,
     inner_text |-> inner_text, full_text |-> full_text, full_text_normalized |-> NULL,
     text |-> text, source_file |-> NULL]

\* The lines drawn for the input file: the record shapes the repository's
\* parsers write, and a line that is no JSON.
\*   parse_saved_html_fix.py: fragment, title, slug, text
\*   parse_saved_html.py:     fragment, title, slug, inner_text
\*   scrape_fragments_json.py: fragment_id, title, full_text
LineCands ==
    { MALFORMED,
      Rec(<<"a">>, NULL, <<"a">>, <<"a">>, NULL, NULL, <<"a", " ", "b">>),
      Rec(<<"a">>, NULL, <<"a">>, <<"a">>, <<"a", " ", "b", " ", "c">>, NULL, NULL),
      Rec(<<"a">>, NULL, <<"a">>, <<"a">>, <<"b", " ", "c">>, NULL, NULL),
      Rec(NULL, <<"b">>, <<>>, NULL, NULL, <<" ", "b", " ", " ", "c", "\r", "\n">>, NULL),
      Rec(<<"c">>, NULL, <<"A", " ", "b">>, <<"a", "_", "b">>, <<"1", " ", "2", " ", "3", " ", "4", " ", "5", " ", "6", " ", "7", " ", "8", " ", "9", " ", "1", "0", " ", "1", "1">>, NULL, NULL),
      Rec(NULL, NULL, NULL, NULL, NULL, <<>>, NULL) }

RECURSIVE SeqsUpTo(_, _)
SeqsUpTo(S, n) ==
    IF n = 0 THEN {<<>>}
    ELSE LET shorter == SeqsUpTo(S, n - 1)
         IN  shorter \cup {Append(q, x) : q \in {r \in shorter : Len(r) = n - 1}, x \in S}

\* fragment = rec.get("fragment") or rec.get("fragment_id") or "unknown_fragment"
RecFragment(rec) == Or(rec.fragment, Or(rec.fragment_id, <<"u", "n", "k", "n", "o", "w", "n", "_", "f", "r", "a", "g", "m", "e", "n", "t">>))

\* title = rec.get("title") or rec.get("slug") or ""
RecTitle(rec) == Or(rec.title, Or(rec.slug, <<>>))

\* slug = safe_slug(title or fragment)
RecSlug(rec) == safe_slug(Or(RecTitle(rec), RecFragment(rec)), <<"d", "o", "c">>)

\* text = rec.get("inner_text") or rec.get("full_text") or
\*        rec.get("full_text_normalized") or ""
RecText(rec) == Or(rec.inner_text, Or(rec.full_text, Or(rec.full_text_normalized, <<>>)))

\* enumerate(chunks) without start=1
ChunkIndex_zero(i) == i - 1

\* enumerate(chunks, start=1)
ChunkIndex(i) == i

\* chunk_id = f"{slug}__{fragment}__chunk{i}"
ChunkId(slug, fragment, i) ==
    slug \o <<"_", "_">> \o fragment \o <<"_", "_">> \o <<"c", "h", "u", "n", "k">> \o Digits(i)

\* fname = OUT_DIR / f"{chunk_id}.json"
ChunkFileName(chunk_id) == chunk_id \o <<".", "j", "s", "o", "n">>

\* out_obj of each chunk of one record, in the order of the inner loop
RecChunks(rec, c) ==
    LET ws == words_from_text(normalize_whitespace(RecText(rec)))
        cs == chunk_words(ws, c[1], c[2])
    IN  [k \in 1..Len(cs) |->
            [chunk_id |-> ChunkId(RecSlug(rec), RecFragment(rec), ChunkIndex(k)),
             source_fragment |-> RecFragment(rec),
             title |-> RecTitle(rec),
             slug |-> RecSlug(rec),
             chunk_index |-> ChunkIndex(k),
             chunk_word_start |-> cs[k][1],
             chunk_word_end |-> cs[k][2],
             text |-> cs[k][3],
             source_file |-> rec.source_file]]

\* the files of `dir` after each object of objs is written to its own file,
\* in order: a later write to the same name replaces the earlier content
WriteChunkFiles(dir, objs) ==
    LET names == {ChunkFileName(objs[k].chunk_id) : k \in 1..Len(objs)}
        lastOf(n) == CHOOSE k \in 1..Len(objs) :
                        /\ ChunkFileName(objs[k].chunk_id) = n
                        /\ \A m \in (k + 1)..Len(objs) : ChunkFileName(objs[m].chunk_id) # n
    IN  [n \in (DOMAIN dir) \cup names |-> IF n \in names THEN objs[lastOf(n)] ELSE dir[n]]

\* per_doc_counts.sort(key=lambda x: x[1], reverse=True): stable, larger first
RECURSIVE SortByCountDesc(_)
SortByCountDesc(q) ==
    IF q = <<>> THEN <<>>
    ELSE LET best == CHOOSE i \in 1..Len(q) :
                        /\ \A j \in 1..Len(q) : q[j][2] <= q[i][2]
                        /\ \A j \in 1..(i - 1) : q[j][2] < q[i][2]
         IN  <<q[best]>> \o SortByCountDesc(SubSeq(q, 1, best - 1) \o SubSeq(q, best + 1, Len(q)))

\* clear_previous_outputs(); the counters; the two files opened
ChunkerStart ==
    /\ pc = "idle"
    /\ pc' = "ch_lines"
    /\ OUT_JSONL' = File(<<>>)
    /\ jsonl_by' = "chunker"
    /\ chunkDir' = Dir(NoFiles)
    /\ line_no' = 0
    /\ processed' = 0
    /\ total_chunks' = 0
    /\ per_doc_counts' = <<>>
    /\ UNCHANGED <<input, BACKUP, backup_by, cfg, finished, dedupVars, cwVars, ixVars, scrapeVars, runVars>>

\* one iteration of `for line in inf`
ChunkerLine ==
    /\ pc = "ch_lines"
    /\ line_no < Len(input)
    /\ line_no' = line_no + 1
    /\ processed' = processed + 1
    /\ LET rec == input[line_no + 1]
       IN  IF rec = MALFORMED
           THEN UNCHANGED <<OUT_JSONL, chunkDir, total_chunks, per_doc_counts>>
           ELSE LET objs == RecChunks(rec, cfg)
                IN  /\ per_doc_counts' = Append(per_doc_counts, <<RecFragment(rec), Len(objs)>>)
                    /\ chunkDir' = Dir(WriteChunkFiles(chunkDir.files, objs))
                    /\ OUT_JSONL' = File(OUT_JSONL.lines \o objs)
                    /\ total_chunks' = total_chunks + Len(objs)
    /\ UNCHANGED <<input, BACKUP, jsonl_by, backup_by, cfg, pc, finished, dedupVars, cwVars, ixVars, scrapeVars, runVars>>

\* the input is exhausted: the files are closed and the summary printed
ChunkerFinish ==
    /\ pc = "ch_lines"
    /\ line_no = Len(input)
    /\ per_doc_counts' = SortByCountDesc(per_doc_counts)
    /\ pc' = "idle"
    /\ finished' = "chunker"
    /\ UNCHANGED <<fileVars, line_no, processed, total_chunks, dedupVars, cwVars, ixVars, scrapeVars, runVars>>

\* ----------------------------------------------- remove_duplicate_chunks.main
\* A chunk file json.load rejects
UNREADABLE == [unreadable |-> TRUE]

\* code-point order of the characters that occur in file names
AsciiOrder ==
    <<"-", ".", "0", "1", "2", "3", "4", "5", "6", "7", "8", "9", "A", "B", "_",
      "a", "b", "c", "d", "e", "f", "g", "h", "i", "j", "k", "l", "m", "n", "o", "p", "q",
      "r", "s", "t", "u", "v", "w", "x", "y", "z">>
Rank(c) == CHOOSE i \in 1..Len(AsciiOrder) : AsciiOrder[i] = c

\* a < b for two strings, as Python compares them
RECURSIVE StrLess(_, _)
StrLess(a, b) ==
    IF b = <<>> THEN FALSE
    ELSE IF a = <<>> THEN TRUE
    ELSE IF a[1] = b[1] THEN StrLess(Tail(a), Tail(b))
    ELSE Rank(a[1]) < Rank(b[1])

\* sorted(paths) for paths of one folder
RECURSIVE SortedNames(_)
SortedNames(S) ==
    IF S = {} THEN <<>>
    ELSE LET least == CHOOSE n \in S : \A m \in S \ {n} : StrLess(n, m)
         IN  <<least>> \o SortedNames(S \ {least})

EndsWith(s, suffix) ==
    Len(s) >= Len(suffix) /\ SubSeq(s, Len(s) - Len(suffix) + 1, Len(s)) = suffix

\* CHUNKS_DIR.glob("*.json")
GlobJson(dir) == {n \in DOMAIN dir : EndsWith(n, <<".", "j", "s", "o", "n">>)}

\* hashlib.sha256(text.encode("utf-8")).hexdigest(): equal digests for equal
\* texts, distinct digests for the distinct texts of one run
Sha256(text) == <<"sha256", text>>

\* the text taken without .strip()
DedupText_raw(j) == Or(j.text, <<>>)

\* text = (j.get("text") or "").strip()
DedupText(j) == Strip(Or(j.text, <<>>), WS)

\* `h in seen`
InSeen(sn, h) == \E k \in 1..Len(sn) : sn[k].hash = h

\* seen[h]["files"].append(str(path))
SeenAppend(sn, h, path) ==
    [k \in 1..Len(sn) |->
        IF sn[k].hash = h THEN [sn[k] EXCEPT !.files = Append(@, path)] ELSE sn[k]]

\* out_obj of a first occurrence
DedupObj(j, text) ==
    [chunk_id |-> j.chunk_id, source_fragment |-> j.source_fragment, title |-> j.title,
     slug |-> j.slug, chunk_index |-> j.chunk_index, text |-> text,
     source_file |-> j.source_file]

\* the output opened for appending
OpenForAppend(old) == File(old.lines)

\* open(OUT_JSONL, "w"): the file starts empty whatever it held
OpenForWrite(old) == File(<<>>)

\* The loop body after `total += 1`, on acc = [out, seen, unique]: the lines
\* written so far, the dict and the counter; j is what json.load gave for path
ScanOne(acc, path, j) ==
    IF j = UNREADABLE THEN acc
    ELSE LET text == DedupText(j)
             h == Sha256(text)
         IN  IF text = <<>> THEN acc
             ELSE IF InSeen(acc.seen, h)
             THEN [acc EXCEPT !.seen = SeenAppend(acc.seen, h, path)]
             ELSE [out |-> Append(acc.out, DedupObj(j, text)),
                   seen |-> Append(acc.seen, [hash |-> h, file |-> path, files |-> <<path>>]),
                   unique |-> acc.unique + 1]

\* dup_examples = [v for v in seen.values() if len(v["files"]) > 1]
RECURSIVE DupExamples(_)
DupExamples(sn) ==
    IF sn = <<>> THEN <<>>
    ELSE IF Len(sn[1].files) > 1 THEN <<sn[1]>> \o DupExamples(Tail(sn))
    ELSE DupExamples(Tail(sn))

\* the figures and the duplicate groups main prints
DedupReport(sn, tot, uniq) ==
    LET ex == DupExamples(sn)
        shown == SubSeq(ex, 1, Min(5, Len(ex)))
    IN  [total |-> tot,
         unique |-> uniq,
         duplicates |-> tot - uniq,
         groups_found |-> Min(5, Len(ex)),
         groups |-> [k \in 1..Len(shown) |->
                        [representative |-> shown[k].file, count |-> Len(shown[k].files)]]]

\* if not CHUNKS_DIR.exists(): return
DedupNoDir ==
    /\ pc = "idle"
    /\ ~chunkDir.exists
    /\ finished' = "dedup_nodir"
    /\ UNCHANGED <<fileVars, pc, chunkerVars, dedupVars, cwVars, ixVars, scrapeVars, runVars>>

\* the backup, the locals, the output opened, the folder listed and sorted
DedupStart ==
    /\ pc = "idle"
    /\ chunkDir.exists
    /\ IF OUT_JSONL.exists
       THEN BACKUP' = OUT_JSONL /\ backup_by' = jsonl_by
       ELSE UNCHANGED <<BACKUP, backup_by>>
    /\ OUT_JSONL' = OpenForWrite(OUT_JSONL)
    /\ jsonl_by' = "dedup"
    /\ seen' = <<>>
    /\ total' = 0
    /\ unique' = 0
    /\ report' = NULL
    /\ scan' = SortedNames(GlobJson(chunkDir.files))
    /\ pc' = "dd_scan"
    /\ UNCHANGED <<input, chunkDir, cfg, finished, chunkerVars, cwVars, ixVars, scrapeVars, runVars>>

\* one iteration of `for path in sorted(...)`
DedupScan ==
    /\ pc = "dd_scan"
    /\ scan # <<>>
    /\ scan' = Tail(scan)
    /\ total' = total + 1
    /\ LET path == scan[1]
           acc == ScanOne([out |-> OUT_JSONL.lines, seen |-> seen, unique |-> unique],
                          path, chunkDir.files[path])
       IN  /\ OUT_JSONL' = File(acc.out)
           /\ seen' = acc.seen
           /\ unique' = acc.unique
    /\ UNCHANGED <<input, BACKUP, chunkDir, cfg, jsonl_by, backup_by, pc, finished,
                   report, chunkerVars, cwVars, ixVars, scrapeVars, runVars>>

\* the folder is exhausted: the output is closed and the summary printed
DedupFinish ==
    /\ pc = "dd_scan"
    /\ scan = <<>>
    /\ report' = DedupReport(seen, total, unique)
    /\ pc' = "idle"
    /\ finished' = "dedup"
    /\ UNCHANGED <<fileVars, scan, seen, total, unique, chunkerVars, cwVars, ixVars, scrapeVars, runVars>>

\* ------------------------------------------------------------ specifications
CWUnused ==
    /\ words = <<>> /\ chunk_size = CHUNK_WORDS /\ overlap = OVERLAP_WORDS
    /\ start = 0 /\ chunks = <<>> /\ cw_pc = "unused"

LocalsInit ==
    /\ pc = "idle" /\ finished = "none"
    /\ line_no = 0 /\ processed = 0 /\ total_chunks = 0 /\ per_doc_counts = <<>>
    /\ scan = <<>> /\ seen = <<>> /\ total = 0 /\ unique = 0 /\ report = NULL

\* The module configurations drawn: the shipped one and a small one
Configs == {<<CHUNK_WORDS, OVERLAP_WORDS>>, <<SmallChunk, SmallOverlap>>}

\* The chunker and the deduplicator run, one at a time and in any order, over
\* an input file that stays as it is; data/clean starts without outputs.
InitPipe ==
    /\ CWUnused
    /\ IxUnused
    /\ RunUnused
    /\ ScrapeUnused
    /\ LocalsInit
    /\ input \in SeqsUpTo(LineCands, MaxRecs)
    /\ cfg \in Configs
    /\ OUT_JSONL = NoFile /\ BACKUP = NoFile /\ chunkDir = NoDir
    /\ jsonl_by = "none" /\ backup_by = "none"

NextPipe ==
    \/ ChunkerStart
    \/ ChunkerLine
    \/ ChunkerFinish
    \/ DedupNoDir
    \/ DedupStart
    \/ DedupScan
    \/ DedupFinish

SpecPipe == InitPipe /\ [][NextPipe]_vars

\* The deduplicator alone, over any chunks folder: files that are no JSON,
\* files without text, texts that differ only in surrounding whitespace, and
\* beside them a file the glob does not match.
DirNames == <<<<"b", ".", "j", "s", "o", "n">>, <<"a", ".", "j", "s", "o", "n">>, <<"c", ".", "j", "s", "o", "n">>, <<"d", ".", "j", "s", "o", "n">>, <<"e", ".", "j", "s", "o", "n">>>>
JsonNames == {DirNames[i] : i \in 1..MaxFiles}
OtherName == <<"a", ".", "t", "x", "t">>

StoredChunk(name, text) ==
    [chunk_id |-> SubSeq(name, 1, Len(name) - 5), source_fragment |-> NULL, title |-> NULL,
     slug |-> NULL, chunk_index |-> 1, chunk_word_start |-> 0,
     chunk_word_end |-> 1, text |-> text, source_file |-> NULL]

StoredTexts == {NULL, <<" ">>, <<"a">>, <<" ", "a", "\n">>, <<"b">>}

Contents == {UNREADABLE} \cup {[text |-> t] : t \in StoredTexts}

Folders == UNION { [S -> Contents] : S \in SUBSET JsonNames }

FolderFiles(f) ==
    [n \in (DOMAIN f) \cup {OtherName} |->
        IF n = OtherName \/ f[n] = UNREADABLE THEN UNREADABLE ELSE StoredChunk(n, f[n].text)]

InitDedup ==
    /\ CWUnused
    /\ IxUnused
    /\ RunUnused
    /\ ScrapeUnused
    /\ LocalsInit
    /\ input = <<>>
    /\ cfg = <<CHUNK_WORDS, OVERLAP_WORDS>>
    /\ \E f \in Folders, exists \in BOOLEAN :
          chunkDir = IF exists THEN Dir(FolderFiles(f)) ELSE NoDir
    /\ \E old \in {NoFile, File(<<DedupObj(StoredChunk(DirNames[1], <<"b">>), <<"b">>)>>)} :
          /\ OUT_JSONL = old
          /\ jsonl_by = IF old.exists THEN "other" ELSE "none"
    /\ BACKUP = NoFile /\ backup_by = "none"

NextDedup ==
    \/ DedupNoDir
    \/ DedupStart
    \/ DedupScan
    \/ DedupFinish

SpecDedup == InitDedup /\ [][NextDedup]_vars

\* ------------------------------------------ build_faiss_index_local.py
\* float32 1.0: a component x of a vector is held as the integer x * Unit, an
\* inner product of two such vectors as the integer score * Unit * Unit
Unit == 5

\* np.linalg.norm of a row (the rows drawn have whole norms)
SumSquares(v) == IF Len(v) = 2 THEN v[1] * v[1] + v[2] * v[2]
                 ELSE v[1] * v[1] + v[2] * v[2] + v[3] * v[3]
Norm(v) == CHOOSE r \in 0..SumSquares(v) : r * r <= SumSquares(v) /\ (r + 1) * (r + 1) > SumSquares(v)

\* SentenceTransformer(model_name).encode(text): the encoder is a fixed
\* function of the text, of the model's dimension; its rows are not of unit
\* length.  MODEL_NAME gives rows of dimension 2, any other model dimension 3.
OtherModel == "other-model"
Encode(model_name, text) ==
    LET v == CASE text = <<"a">> -> <<3, 4>>
               [] text = <<"b">> -> <<-6, 8>>
               [] text = <<"c">> -> <<8, 6>>
               [] text = <<>> -> <<0, 10>>
               [] OTHER -> <<5, 0>>
    IN  IF model_name = MODEL_NAME THEN v ELSE <<v[1], v[2], 0>>

\* norms[norms == 0] = 1.0; embs = embs / norms
Normalize(v) == LET n == IF Norm(v) = 0 THEN 1 ELSE Norm(v)
                IN  [c \in DOMAIN v |-> (v[c] * Unit) \div n]

\* (records[j].get("text") or "")[:400]
PreviewChars == 400
TextPreview_full(rec) == Or(rec.text, <<>>)
TextPreview(rec) == Slice(Or(rec.text, <<>>), 0, PreviewChars)

\* one element of `metas`
MetaOf(rec) ==
    [chunk_id |-> rec.chunk_id, source_fragment |-> rec.source_fragment, title |-> rec.title,
     slug |-> rec.slug, chunk_index |-> rec.chunk_index, source_file |-> rec.source_file,
     text_preview |-> TextPreview(rec)]

\* math.ceil(n / batch_size)
CeilDiv(n, b) == (n + b - 1) \div b

\* the batch counter taken for the position: start = i
BatchStart_counter(k, b) == k

\* start = i * batch_size; end = min((i + 1) * batch_size, n)
BatchStart(k, b) == k * b
BatchEnd(k, b, n) == Min((k + 1) * b, n)

\* texts = [records[j]["text"] for j in range(start, end)]; the rows of the batch
BatchRows(recs, st, end) ==
    [j \in 1..(end - st) |-> Normalize(Encode(MODEL_NAME, recs[st + j].text))]

\* the metas of the batch, in the order of `for j in range(start, end)`
BatchMetas(recs, st, end) == [j \in 1..(end - st) |-> MetaOf(recs[st + j])]

\* np.vstack(vectors): the rows of the batches, one under the other
RECURSIVE VStack(_)
VStack(arrays) == IF arrays = <<>> THEN <<>> ELSE arrays[1] \o VStack(Tail(arrays))

\* load_records: the lines json.loads accepts, in file order
load_records(lines) == SelectSeq(lines, LAMBDA l : l # MALFORMED)

\* model.get_sentence_embedding_dimension()
Dim(model_name) == Len(Encode(model_name, <<>>))

\* build_index(records, batch_size=batch_size), the call as a whole
build_index(recs, b) ==
    LET n == Len(recs)
        n_batches == CeilDiv(n, b)
    IN  [vectors |-> VStack([k \in 1..n_batches |->
                        BatchRows(recs, BatchStart(k - 1, b), BatchEnd(k - 1, b, n))]),
         metas |-> VStack([k \in 1..n_batches |->
                        BatchMetas(recs, BatchStart(k - 1, b), BatchEnd(k - 1, b, n))]),
         dim |-> Dim(MODEL_NAME)]

\* data/index as build number `b` over `recs` leaves it when nothing goes wrong
IndexFile(d, rows, b) == [exists |-> TRUE, d |-> d, vectors |-> rows, build |-> b, whole |-> TRUE]
MetaFile(lines, b) == [exists |-> TRUE, lines |-> lines, build |-> b]

\* The batch sizes build_index is given: the default and small ones
BatchSizes == {BATCH_SIZE} \cup (1..MaxBatch)

\* main up to the call of build_index: the input looked up and loaded, the
\* two early returns, then the locals of build_index
BuildStart ==
    /\ bi_pc = "idle"
    /\ builds < MaxBuilds
    /\ builds' = builds + 1
    /\ IF ~OUT_JSONL.exists
       THEN /\ bi_out' = "input_not_found"
            /\ UNCHANGED <<bi_pc, batch_size, records, batch_i, vectors, metas, written>>
       ELSE /\ records' = load_records(OUT_JSONL.lines)
            /\ IF Len(records') = 0
               THEN /\ bi_out' = "no_chunks"
                    /\ UNCHANGED <<bi_pc, batch_size, batch_i, vectors, metas, written>>
               ELSE /\ bi_pc' = "batches"
                    /\ bi_out' = "none"
                    /\ UNCHANGED batch_size
                    /\ batch_i' = 0
                    /\ vectors' = <<>>
                    /\ metas' = <<>>
                    /\ written' = 0
    /\ UNCHANGED <<scrapeVars, runVars, cwVars, pipeVars, indexFiles, retrieveVars, askVars>>

\* one iteration of `for i in range(n_batches)`
BuildBatch ==
    /\ bi_pc = "batches"
    /\ batch_i < CeilDiv(Len(records), batch_size)
    /\ LET st == BatchStart(batch_i, batch_size)
           end == BatchEnd(batch_i, batch_size, Len(records))
       IN  /\ vectors' = Append(vectors, BatchRows(records, st, end))
           /\ metas' = metas \o BatchMetas(records, st, end)
    /\ batch_i' = batch_i + 1
    /\ UNCHANGED <<bi_pc, batch_size, records, written, builds, bi_out>>
    /\ UNCHANGED <<scrapeVars, runVars, cwVars, pipeVars, indexFiles, retrieveVars, askVars>>

\* the loop is left, index.add(np.vstack(vectors)), build_index returns and
\* faiss.write_index opens faiss.index for writing
SaveIndexOpen ==
    /\ bi_pc = "batches"
    /\ batch_i = CeilDiv(Len(records), batch_size)
    /\ FAISS_PATH' = [exists |-> TRUE, d |-> Dim(MODEL_NAME), vectors |-> <<>>,
                      build |-> builds, whole |-> FALSE]
    /\ bi_pc' = "write_index"
    /\ UNCHANGED <<META_PATH, batch_size, records, batch_i, vectors, metas, written, builds, bi_out>>
    /\ UNCHANGED <<scrapeVars, runVars, cwVars, pipeVars, retrieveVars, askVars>>

\* faiss.write_index has written the index and closed the file
SaveIndexWrite ==
    /\ bi_pc = "write_index"
    /\ FAISS_PATH' = IndexFile(Dim(MODEL_NAME), VStack(vectors), builds)
    /\ bi_pc' = "open_meta"
    /\ UNCHANGED <<META_PATH, batch_size, records, batch_i, vectors, metas, written, builds, bi_out>>
    /\ UNCHANGED <<scrapeVars, runVars, cwVars, pipeVars, retrieveVars, askVars>>

\* open(meta_path, "w")
SaveMetaOpen ==
    /\ bi_pc = "open_meta"
    /\ META_PATH' = MetaFile(<<>>, builds)
    /\ written' = 0
    /\ bi_pc' = "write_meta"
    /\ UNCHANGED <<FAISS_PATH, batch_size, records, batch_i, vectors, metas, builds, bi_out>>
    /\ UNCHANGED <<scrapeVars, runVars, cwVars, pipeVars, retrieveVars, askVars>>

\* one iteration of `for m in meta_records`
SaveMetaLine ==
    /\ bi_pc = "write_meta"
    /\ written < Len(metas)
    /\ META_PATH' = MetaFile(Append(META_PATH.lines, metas[written + 1]), builds)
    /\ written' = written + 1
    /\ UNCHANGED <<FAISS_PATH, bi_pc, batch_size, records, batch_i, vectors, metas, builds, bi_out>>
    /\ UNCHANGED <<scrapeVars, runVars, cwVars, pipeVars, retrieveVars, askVars>>

\* the metadata file is closed and main prints where the index was saved
SaveMetaClose ==
    /\ bi_pc = "write_meta"
    /\ written = Len(metas)
    /\ bi_pc' = "idle"
    /\ bi_out' = "saved"
    /\ UNCHANGED <<indexFiles, batch_size, records, batch_i, vectors, metas, written, builds>>
    /\ UNCHANGED <<scrapeVars, runVars, cwVars, pipeVars, retrieveVars, askVars>>

\* The build process is killed, or a write raises: main has no handler, so the
\* run ends where it is and data/index stays as the last statement left it.
BuildInterrupted ==
    /\ bi_pc \in {"write_index", "open_meta", "write_meta"}
    /\ bi_pc' = "idle"
    /\ bi_out' = "interrupted"
    /\ UNCHANGED <<indexFiles, batch_size, records, batch_i, vectors, metas, written, builds>>
    /\ UNCHANGED <<scrapeVars, runVars, cwVars, pipeVars, retrieveVars, askVars>>

\* ----------------------------------------------- rag_query_openai.retrieve
\* the inner product of two rows of one dimension
Dot(u, v) == IF Len(u) = 2 THEN u[1] * v[1] + u[2] * v[2]
             ELSE u[1] * v[1] + u[2] * v[2] + u[3] * v[3]

\* q_emb / np.linalg.norm(q_emb, axis=1, keepdims=True): the norm is used
\* as computed
QueryEmbedding(model_name, text) ==
    LET v == Encode(model_name, text)
    IN  [c \in DOMAIN v |-> (v[c] * Unit) \div Norm(v)]

\* index.search(q_emb, k) of an IndexFlatIP holding `rows`: the positions of
\* the k rows of largest inner product, best first, padded with -1 when the
\* index holds fewer than k rows.  The library states no order among rows of
\* equal inner product: every order is an outcome.
SearchOutcomes(rows, q, k) ==
    LET n == Len(rows)
        m == Min(k, n)
        sc(p) == Dot(rows[p + 1], q)
        best == { f \in [1..m -> 0..(n - 1)] :
                    /\ \A a, b \in 1..m : a < b => f[a] # f[b] /\ sc(f[a]) >= sc(f[b])
                    /\ \A p \in 0..(n - 1) :
                          (\A a \in 1..m : f[a] # p) => \A a \in 1..m : sc(f[a]) >= sc(p) }
    IN  { f \o [x \in 1..(k - m) |-> -1] : f \in best }

\* m.get("text") or m.get("text_preview") or "": the builder's metadata has
\* no key "text"
ResultText(m) == Or(NULL, Or(m.text_preview, <<>>))

\* one element of `results`
ResultOf(m, sc) ==
    [score |-> sc, chunk_id |-> m.chunk_id, title |-> m.title,
     source_fragment |-> m.source_fragment, source_file |-> m.source_file,
     text |-> ResultText(m)]

\* if idx >= len(metas): continue, with the test for a negative idx left out
Live_upper(idx, ms) == ~(idx >= Len(ms))

\* the positions the loop over zip(ids, scores) does not skip
Live(idx, ms) == ~(idx < 0 \/ idx >= Len(ms))

\* metas[idx] as Python indexes a list: a negative idx counts from the end,
\* an idx outside -len..len-1 raises IndexError
Indexable(ms, idx) == 0 - Len(ms) <= idx /\ idx < Len(ms)
ListItem(ms, idx) == IF idx < 0 THEN ms[Len(ms) + idx + 1] ELSE ms[idx + 1]

\* the element of `scores` that goes with idx: the inner product, and for the
\* padding -1 a value below every inner product
ScoreOf(rows, q, idx) == IF idx < 0 THEN 0 - (Unit * Unit * Unit) ELSE Dot(rows[idx + 1], q)

\* the loop over zip(ids, scores): the list built, or the exception of metas[idx]
CollectResults(found, rows, q, ms) ==
    LET kept == SelectSeq(found, LAMBDA idx : Live(idx, ms))
    IN  IF \E r \in 1..Len(kept) : ~Indexable(ms, kept[r])
        THEN [raised |-> "IndexError", list |-> <<>>]
        ELSE [raised |-> "none",
              list |-> [r \in 1..Len(kept) |->
                          ResultOf(ListItem(ms, kept[r]), ScoreOf(rows, q, kept[r]))]]

\* The texts retrieve is called with, and the questions ask_question is asked
QueryTexts == {<<"a">>, <<>>}
Questions == {<<" ", "a", "\n">>, <<" ">>}

\* the test with the metadata path left out
Missing_index(index_file, meta_file) == ~index_file.exists

\* if not FAISS_PATH.exists() or not META_PATH.exists()
Missing(index_file, meta_file) == ~index_file.exists \/ ~meta_file.exists

\* retrieve(query, top_k) up to faiss.read_index: the two paths looked up,
\* then the index file read; called by `caller`
RetrieveEnter(q, k, caller) ==
    /\ rq_pc = "idle"
    /\ ask_pc = "idle"
    /\ query' = q
    /\ top_k' = k
    /\ r_metas' = <<>>
    /\ ids' = <<>>
    /\ results' = <<>>
    /\ IF Missing(FAISS_PATH, META_PATH)
       THEN /\ rq_out' = "FileNotFoundError"
            /\ r_index' = NoIndex
            /\ rq_pc' = "idle"
       ELSE IF ~FAISS_PATH.whole
       THEN /\ rq_out' = "RuntimeError"
            /\ r_index' = NoIndex
            /\ rq_pc' = "idle"
       ELSE /\ rq_out' = "none"
            /\ r_index' = FAISS_PATH
            /\ rq_pc' = "read_meta"
    /\ IF caller = "ask_question"
       THEN IF rq_pc' = "idle"
            THEN ask_pc' = "idle" /\ response' = Raised(rq_out')
            ELSE ask_pc' = "retrieve" /\ response' = NoResponse
       ELSE UNCHANGED askVars
    /\ UNCHANGED <<scrapeVars, runVars, cwVars, pipeVars, indexFiles, buildVars, EMBED_MODEL>>

\* a caller of the module calls retrieve: with no top_k, the default, or more
TopKs == {0, TOP_K, MaxTopK}
RetrieveCall == \E q \in QueryTexts, k \in TopKs : RetrieveEnter(q, k, "caller")

\* metas = load_meta(META_PATH)
RetrieveLoadMeta ==
    /\ rq_pc = "read_meta"
    /\ IF ~META_PATH.exists
       THEN /\ rq_out' = "FileNotFoundError"
            /\ rq_pc' = "idle"
            /\ r_index' = NoIndex
            /\ UNCHANGED r_metas
            /\ IF ask_pc = "retrieve"
               THEN ask_pc' = "idle" /\ response' = Raised(rq_out')
               ELSE UNCHANGED askVars
       ELSE /\ r_metas' = META_PATH.lines
            /\ rq_pc' = "search"
            /\ UNCHANGED <<r_index, rq_out, askVars>>
    /\ UNCHANGED <<EMBED_MODEL, query, top_k, ids, results>>
    /\ UNCHANGED <<scrapeVars, runVars, cwVars, pipeVars, indexFiles, buildVars>>

\* retrieve from the encoding of the query to its return.  index.search
\* refuses a query of another dimension than the index; what it does with a
\* top_k that is not positive differs between its versions (it raises, or it
\* finds nothing).
RetrieveSearch ==
    /\ rq_pc = "search"
    /\ rq_pc' = "idle"
    /\ LET q == QueryEmbedding(EMBED_MODEL, query)
       IN  IF Len(q) # r_index.d
           THEN rq_out' = "AssertionError" /\ UNCHANGED <<ids, results>>
           ELSE IF top_k <= 0
           THEN \/ rq_out' = "AssertionError" /\ UNCHANGED <<ids, results>>
                \/ rq_out' = "returned" /\ UNCHANGED <<ids, results>>
           ELSE \E found \in SearchOutcomes(r_index.vectors, q, top_k) :
                   LET out == CollectResults(found, r_index.vectors, q, r_metas)
                   IN  /\ ids' = found
                       /\ results' = out.list
                       /\ rq_out' = IF out.raised = "none" THEN "returned" ELSE out.raised
    /\ IF ask_pc = "retrieve"
       THEN IF rq_out' = "returned"
            THEN ask_pc' = "generate" /\ UNCHANGED response
            ELSE ask_pc' = "idle" /\ response' = Raised(rq_out')
       ELSE UNCHANGED askVars
    /\ r_index' = NoIndex
    /\ r_metas' = <<>>
    /\ UNCHANGED <<EMBED_MODEL, query, top_k>>
    /\ UNCHANGED <<scrapeVars, runVars, cwVars, pipeVars, indexFiles, buildVars>>

\* ------------------------------------------------- rag_api.ask_question
\* ask_question up to the return of retrieve(q, top_k=TOP_K)
AskCall == \E question \in Questions : RetrieveEnter(Strip(question, WS), TOP_K, "ask_question")

\* a completion that holds a command with a credential
SecretAnswer == <<"R", "u", "n", ".", "\n", BACKTICK, BACKTICK, BACKTICK, "b", "a", "s", "h", "\n", "c", "u", "r", "l", " ", "-", "u", " ", "a", ":", "K", " ", "x", "\n", BACKTICK, BACKTICK, BACKTICK>>

\* What the remote side can answer a generation call with: no key is
\* configured, the request times out, a status other than 200, or a completion
Replies == {[key |-> FALSE, status |-> 0, content |-> <<>>],
            [key |-> TRUE, status |-> 0, content |-> <<>>],
            [key |-> TRUE, status |-> 500, content |-> <<>>],
            [key |-> TRUE, status |-> 200, content |-> <<" ", "o", "k">>],
            [key |-> TRUE, status |-> 200, content |-> SecretAnswer]}

\* call_openai_chat(system_prompt, user_prompt) when the remote side answers
\* `reply`: the exception raised, or the JSON returned
call_openai_chat(reply) ==
    IF ~reply.key THEN [raised |-> "RuntimeError", content |-> <<>>]
    ELSE IF reply.status = 0 THEN [raised |-> "Timeout", content |-> <<>>]
    ELSE IF reply.status # 200 THEN [raised |-> "HTTPError", content |-> <<>>]
    ELSE [raised |-> "none", content |-> reply.content]

\* retrieved_info
RetrievedInfo(retrieved) ==
    [r \in 1..Len(retrieved) |->
        [chunk_id |-> retrieved[r].chunk_id, score |-> retrieved[r].score,
         title |-> retrieved[r].title, preview |-> Slice(retrieved[r].text, 0, 200)]]

\* ask_question from call_openai_chat to its end: an exception of the call
\* leaves ask_question, there is no handler
AskReply(q, retrieved, llm_raw) ==
    IF llm_raw.raised # "none" THEN Raised(llm_raw.raised)
    ELSE [kind |-> "answer", question |-> q, answer |-> Strip(llm_raw.content, WS),
          retrieved |-> RetrievedInfo(retrieved)]

\* retrieved_info, build_prompt, call_openai_chat and the return
AskGenerate ==
    /\ ask_pc = "generate"
    /\ \E reply \in Replies : response' = AskReply(query, results, call_openai_chat(reply))
    /\ ask_pc' = "idle"
    /\ UNCHANGED <<scrapeVars, runVars, cwVars, pipeVars, indexFiles, buildVars, retrieveVars>>

\* ------------------------------------------------ rag_query_openai.build_prompt
\* str(v) inside an f-string
Str(v) == IF v = NULL THEN <<"N", "o", "n", "e">> ELSE v

\* the text appended to a text that was cut
TruncationMarker == <<" ", ".", ".", ".", " ", "(", "t", "r", "u", "n", "c", "a", "t", "e", "d", ")">>

\* `txt` as a block shows it, cut after `budget` characters
PromptText_atbudget(r, budget) ==
    LET txt == Strip(r.text, WS)
    IN  IF Len(txt) >= budget THEN Slice(txt, 0, budget) \o TruncationMarker ELSE txt
PromptText(r, budget) ==
    LET txt == Strip(r.text, WS)
    IN  IF Len(txt) > budget THEN Slice(txt, 0, budget) \o TruncationMarker ELSE txt

\* one element of context_blocks
ContextBlock(i, r, budget) ==
    <<"[">> \o Digits(i) \o <<"]", " ">> \o Str(r.chunk_id) \o <<" ", "-", " ">> \o Str(r.title) \o <<"\n">>
        \o PromptText(r, budget)

\* the fixed parts of user_prompt (the closing instruction is abridged)
PromptHead(question) == <<"Q", "u", "e", "s", "t", "i", "o", "n", ":", " ">> \o question \o <<"\n", "\n", "D", "o", "c", "u", "m", "e", "n", "t", "a", "t", "i", "o", "n", " ", "s", "n", "i", "p", "p", "e", "t", "s", ":", "\n">>
PromptTail == <<"\n", "\n", "A", "n", "s", "w", "e", "r", " ", "c", "o", "n", "c", "i", "s", "e", "l", "y", ".">>

\* build_prompt(question, retrieved)[1], MAX_CONTEXT_CHARS being `budget`
build_prompt(question, retrieved, budget) ==
    LET context_blocks == [i \in 1..Len(retrieved) |-> ContextBlock(i, retrieved[i], budget)]
        context == IF context_blocks # <<>> THEN Join(<<"\n", "\n">>, context_blocks) ELSE <<>>
    IN  PromptHead(question) \o context \o PromptTail

\* ------------------------------------ rag_query_openai.extract_preface_and_code
\* re.IGNORECASE on the letters of the texts drawn
UpperAZ == <<"A", "B", "C", "D", "E", "F", "G", "H", "I", "J", "K", "L", "M", "N", "O", "P", "Q", "R", "S", "T", "U", "V", "W", "X", "Y", "Z">>
LowerAZ == <<"a", "b", "c", "d", "e", "f", "g", "h", "i", "j", "k", "l", "m", "n", "o", "p", "q", "r", "s", "t", "u", "v", "w", "x", "y", "z">>
CaseFold(c) == IF \E i \in 1..26 : UpperAZ[i] = c
               THEN LowerAZ[CHOOSE i \in 1..26 : UpperAZ[i] = c] ELSE c
Folded(s) == [i \in 1..Len(s) |-> CaseFold(s[i])]

\* s[p:].startswith(t), and the same under re.IGNORECASE
StartsAt(s, p, t) == p + Len(t) <= Len(s) /\ SubSeq(s, p + 1, p + Len(t)) = t
StartsAtFolded(s, p, t) == p + Len(t) <= Len(s) /\ Folded(SubSeq(s, p + 1, p + Len(t))) = Folded(t)

\* s.find(t, from), -1 when t does not occur at or after `from`
Find(s, t, from) ==
    LET at == {p \in from..(Len(s) - Len(t)) : StartsAt(s, p, t)}
    IN  IF at = {} THEN -1 ELSE CHOOSE p \in at : \A o \in at : p <= o

Fence == <<BACKTICK, BACKTICK, BACKTICK>>

\* (?:bash|sh|shell)? : the alternatives in the order the pattern tries them
TagAlternatives == <<<<"b", "a", "s", "h">>, <<"s", "h">>, <<"s", "h", "e", "l", "l">>, <<>>>>

\* the rest of the pattern matches at the fence at `o` under alternative `a`
Closes(text, o, a) ==
    /\ StartsAtFolded(text, o + 3, TagAlternatives[a])
    /\ Find(text, Fence, o + 3 + Len(TagAlternatives[a])) # -1

\* (?:\r?\n)? : the start of the line break that ends at `o`
BreakBefore(text, o) ==
    IF o >= 2 /\ text[o - 1] = "\r" /\ text[o] = "\n" THEN o - 2
    ELSE IF o >= 1 /\ text[o] = "\n" THEN o - 1
    ELSE o

\* re.search of the fenced-block pattern: the groups of the match that starts
\* at 0 with the shortest preface; the white space the two \s* take is white
\* space strip() removes from the code group
FenceSearch(text) ==
    LET opens == {o \in 0..Len(text) :
                     StartsAt(text, o, Fence) /\ \E a \in 1..4 : Closes(text, o, a)}
    IN  IF opens = {} THEN [found |-> FALSE, preface |-> <<>>, code |-> <<>>]
        ELSE LET o == CHOOSE p \in opens : \A x \in opens : p <= x
                 a == CHOOSE x \in 1..4 : Closes(text, o, x) /\ \A y \in 1..(x - 1) : ~Closes(text, o, y)
                 t == o + 3 + Len(TagAlternatives[a])
             IN  [found |-> TRUE,
                  preface |-> Slice(text, 0, BreakBefore(text, o)),
                  code |-> Slice(text, t, Find(text, Fence, t))]

\* text.splitlines(), a line ending at "\n", "\r\n" or "\r"
RECURSIVE SplitAtNewlines(_)
SplitAtNewlines(s) ==
    IF s = <<>> THEN <<>>
    ELSE LET n == Find(s, <<"\n">>, 0)
         IN  IF n = -1 THEN <<s>> ELSE <<Slice(s, 0, n)>> \o SplitAtNewlines(Drop(s, n + 1))
SplitLines(s) == SplitAtNewlines(ReplaceCR(ReplaceCRLF(s)))

\* [ln.strip() for ln in text.splitlines() if ln.strip()]
NonBlankLines(text) ==
    LET split == SplitLines(text)
    IN  SelectSeq([i \in 1..Len(split) |-> Strip(split[i], WS)], LAMBDA ln : ln # <<>>)

CommandStarts == {<<"c", "u", "r", "l">>, <<"h", "t", "t", "p">>, <<"w", "g", "e", "t">>, <<"s", "u", "d", "o">>, <<"s", "s", "h">>}
StartsCommand(ln) == \E t \in CommandStarts : StartsAt(ln, 0, t)

\* lines[:3]
HeadLines_all(lines) == lines
HeadLines(lines) == Slice(lines, 0, 3)

\* extract_preface_and_code(text): [preface, code], NULL for None
extract_preface_and_code(text) ==
    IF Falsy(text) THEN [preface |-> NULL, code |-> NULL]
    ELSE LET m == FenceSearch(text)
             lines == NonBlankLines(text)
             first3 == HeadLines(lines)
         IN  IF m.found
             THEN [preface |-> IF Strip(m.preface, WS) = <<>> THEN NULL ELSE Strip(m.preface, WS),
                   code |-> Strip(m.code, WS)]
             ELSE IF lines = <<>> THEN [preface |-> NULL, code |-> NULL]
             ELSE IF \E i \in 1..Len(first3) : StartsCommand(first3[i])
             THEN [preface |-> NULL,
                   code |-> first3[CHOOSE i \in 1..Len(first3) :
                                      /\ StartsCommand(first3[i])
                                      /\ \A j \in 1..(i - 1) : ~StartsCommand(first3[j])]]
             ELSE [preface |-> Strip(text, WS), code |-> NULL]

\* ------------------------- rag_query_openai.redact_possible_secrets_from_code
REDACTED_spaced == <<"*", "*", "*", " ", "R", "E", "D", "A", "C", "T", "E", "D", " ", "*", "*", "*">>
REDACTED == <<"*", "*", "*", "R", "E", "D", "A", "C", "T", "E", "D", "*", "*", "*">>

\* the length of the leading run of s outside `set`
RECURSIVE RunLenNot(_, _)
RunLenNot(s, set) == IF s = <<>> \/ s[1] \in set THEN 0 ELSE 1 + RunLenNot(Tail(s), set)

\* (-u\s+[^:\s]+):\S+ matched at p: where the colon and the end of the match are
UserPair(s, p) ==
    LET w == RunLen(Drop(s, p + 2), WS)
        u == RunLenNot(Drop(s, p + 2 + w), WS \cup {":"})
        colon == p + 2 + w + u
        v == RunLenNot(Drop(s, colon + 1), WS)
    IN  [found |-> /\ StartsAt(s, p, <<"-", "u">>) /\ w >= 1 /\ u >= 1
                   /\ StartsAt(s, colon, <<":">>) /\ v >= 1,
         keep |-> colon, end |-> colon + 1 + v]

\* (Authorization:\s*Bearer\s+)(\S+) under re.IGNORECASE, matched at p
BearerValue(s, p) ==
    LET w1 == RunLen(Drop(s, p + 14), WS)
        w2 == RunLen(Drop(s, p + 14 + w1 + 6), WS)
        value == p + 14 + w1 + 6 + w2
        v == RunLenNot(Drop(s, value), WS)
    IN  [found |-> /\ StartsAtFolded(s, p, <<"A", "u", "t", "h", "o", "r", "i", "z", "a", "t", "i", "o", "n", ":">>)
                   /\ StartsAtFolded(s, p + 14 + w1, <<"B", "e", "a", "r", "e", "r">>) /\ w2 >= 1 /\ v >= 1,
         keep |-> value, end |-> value + v]

\* re.sub of the first pattern by \1:***REDACTED***, from p on
RECURSIVE SubUserPairs(_, _)
SubUserPairs(s, p) ==
    IF p >= Len(s) THEN <<>>
    ELSE LET m == UserPair(s, p)
         IN  IF m.found THEN Slice(s, p, m.keep) \o <<":">> \o REDACTED \o SubUserPairs(s, m.end)
             ELSE <<s[p + 1]>> \o SubUserPairs(s, p + 1)

\* re.sub of the second pattern by \1***REDACTED***, from p on
RECURSIVE SubBearerValues(_, _)
SubBearerValues(s, p) ==
    IF p >= Len(s) THEN <<>>
    ELSE LET m == BearerValue(s, p)
         IN  IF m.found THEN Slice(s, p, m.keep) \o REDACTED \o SubBearerValues(s, m.end)
             ELSE <<s[p + 1]>> \o SubBearerValues(s, p + 1)

redact_possible_secrets_from_code(snippet) ==
    IF Falsy(snippet) THEN snippet ELSE SubBearerValues(SubUserPairs(snippet, 0), 0)

\* ----------------------------------------------- rag_query_openai.main
\* one print of the loop body: what is shown and under which heading
Shown(what, text) == [what |-> what, text |-> text]

\* the prints that follow extract_preface_and_code(content)
PrintAnswer(text, ex) ==
    (IF ~Falsy(ex.preface) THEN <<Shown("preface", ex.preface)>> ELSE <<>>)
    \o (IF ~Falsy(ex.code)
        THEN <<Shown("code", redact_possible_secrets_from_code(ex.code))>>
        ELSE IF Falsy(ex.preface) THEN <<Shown("answer", Strip(text, WS))>> ELSE <<>>)

\* a result as retrieve returns it: position k of the list, the text given
ShownResult(k, text) ==
    [score |-> Unit * Unit, chunk_id |-> <<"c">> \o Digits(k),
     title |-> IF k % 2 = 1 THEN NULL ELSE <<"T">>, source_fragment |-> NULL,
     source_file |-> NULL, text |-> text]

\* One pass of the loop body up to the generation call: the question read,
\* retrieve(q, top_k=TOP_K) raising or returning results with one of the
\* `texts`, the key looked up, the prompt built
RunnerAsk(texts) ==
    /\ run_pc = "idle"
    /\ \E question \in Questions, ts \in texts, raised \in BOOLEAN, key \in BOOLEAN :
          LET q == Strip(question, WS)
              rs == [k \in 1..Len(ts) |-> ShownResult(k, ts[k])]
          IN  /\ q # <<>>
              /\ query' = q
              /\ results' = IF raised THEN <<>> ELSE rs
              /\ rq_out' = IF raised THEN "FileNotFoundError" ELSE "returned"
              /\ IF raised
                 THEN /\ printed' = <<Shown("retrieval_error", <<>>)>>
                      /\ run_pc' = "done"
                      /\ UNCHANGED user_prompt
                 ELSE IF rs = <<>>
                 THEN /\ printed' = <<Shown("no_chunks", <<>>)>>
                      /\ run_pc' = "done"
                      /\ UNCHANGED user_prompt
                 ELSE IF ~key
                 THEN /\ printed' = <<Shown("context", <<>>), Shown("no_key", <<>>)>>
                      /\ run_pc' = "done"
                      /\ UNCHANGED user_prompt
                 ELSE /\ printed' = <<Shown("context", <<>>)>>
                      /\ user_prompt' = build_prompt(q, rs, MAX_CONTEXT_CHARS)
                      /\ run_pc' = "called"
    /\ UNCHANGED <<MAX_CONTEXT_CHARS, DEBUG_RAW, content, preface, code>>
    /\ UNCHANGED <<scrapeVars, cwVars, pipeVars, indexFiles, buildVars, askVars>>
    /\ UNCHANGED <<EMBED_MODEL, rq_pc, top_k, r_index, r_metas, ids>>

\* The rest of the pass: call_openai_chat answered by one of `replies`, the
\* content taken from the first choice, extracted, redacted and printed
RunnerReply(replies) ==
    /\ run_pc = "called"
    /\ \E reply \in replies :
          LET raw == call_openai_chat(reply)
              ex == extract_preface_and_code(raw.content)
              debug == IF DEBUG_RAW THEN <<Shown("raw", raw.content)>> ELSE <<>>
          IN  IF raw.raised # "none"
              THEN /\ printed' = Append(printed, Shown("call_error", <<>>))
                   /\ UNCHANGED <<content, preface, code>>
              ELSE IF raw.content = <<>>
              THEN /\ content' = raw.content
                   /\ printed' = printed \o debug \o <<Shown("no_answer", <<>>)>>
                   /\ UNCHANGED <<preface, code>>
              ELSE /\ content' = raw.content
                   /\ preface' = ex.preface
                   /\ code' = ex.code
                   /\ printed' = printed \o debug \o PrintAnswer(raw.content, ex)
    /\ run_pc' = "done"
    /\ UNCHANGED <<MAX_CONTEXT_CHARS, DEBUG_RAW, user_prompt>>
    /\ UNCHANGED <<scrapeVars, cwVars, pipeVars, ixVars>>

\* ------------------------------------------------ the index and the queries
\* The records of deduped_chunks.jsonl the index is built from: as the
\* deduplicator leaves the file, or as the chunker leaves it (repeated texts)
IxTexts == {<<"a">>, <<"b">>, <<"c">>}
IxRecord(k, text) ==
    [chunk_id |-> <<"c">> \o Digits(k), source_fragment |-> NULL, title |-> NULL,
     slug |-> NULL, chunk_index |-> k, text |-> text, source_file |-> NULL]
IxInputs == { [k \in 1..Len(ts) |-> IxRecord(k, ts[k])] : ts \in SeqsUpTo(IxTexts, MaxIxRecs) }

\* data/index as an earlier, completed run of the builder over `recs` left it
BuiltBefore(recs) ==
    LET built == build_index(recs, BATCH_SIZE)
    IN  /\ FAISS_PATH = IndexFile(built.dim, built.vectors, 0)
        /\ META_PATH = MetaFile(built.metas, 0)

\* The files the builder is started over in the runs with queries: the
\* leading records of one file with a repeated text
IxTemplate == <<<<"a">>, <<"b">>, <<"a">>, <<"c">>, <<"b">>>>
IxPrefixes == { [k \in 1..n |-> IxRecord(k, IxTemplate[k])] : n \in 0..MaxIxRecs }

IxInit(inputs, models, sizes) ==
    /\ CWUnused
    /\ RunUnused
    /\ ScrapeUnused
    /\ LocalsInit
    /\ input = <<>>
    /\ cfg = <<CHUNK_WORDS, OVERLAP_WORDS>>
    /\ chunkDir = NoDir /\ BACKUP = NoFile /\ backup_by = "none"
    /\ \/ OUT_JSONL = NoFile /\ jsonl_by = "none"
       \/ \E recs \in inputs : OUT_JSONL = File(recs) /\ jsonl_by = "dedup"
    /\ \/ FAISS_PATH = NoIndex /\ META_PATH = NoMeta
       \/ BuiltBefore(<<IxRecord(1, <<"b">>), IxRecord(2, <<"a">>)>>)
    /\ builds = 0
    /\ EMBED_MODEL \in models
    /\ batch_size \in sizes
    /\ BuildIdle
    /\ QueryIdle

\* The index builder alone, run and rerun over any input file, and killed at
\* any point of save_index.  data/index starts empty or holds an earlier build.
InitBuild == IxInit(IxInputs, {MODEL_NAME}, BatchSizes)

NextBuild ==
    \/ BuildStart
    \/ BuildBatch
    \/ SaveIndexOpen
    \/ SaveIndexWrite
    \/ SaveMetaOpen
    \/ SaveMetaLine
    \/ SaveMetaClose
    \/ BuildInterrupted

SpecBuild == InitBuild /\ [][NextBuild]_vars

\* The index builder and the query side run side by side: the builder is
\* started over the input file as it stands, callers call retrieve and ask
\* questions at any time.
InitIndex == IxInit(IxPrefixes, {MODEL_NAME, OtherModel}, {BATCH_SIZE})

NextIndex ==
    \/ BuildStart
    \/ BuildBatch
    \/ SaveIndexOpen
    \/ SaveIndexWrite
    \/ SaveMetaOpen
    \/ SaveMetaLine
    \/ SaveMetaClose
    \/ RetrieveCall
    \/ RetrieveLoadMeta
    \/ RetrieveSearch
    \/ AskCall
    \/ AskGenerate

SpecIndex == InitIndex /\ [][NextIndex]_vars

\* --------------------------------------------- scrape_fragments_json.py
MAX_RETRIES == 6
MaxFragments == 2   \* most fragment ids collected from the page

\* re.sub(r'\r\n', '\n', t)
RECURSIVE SubCrLf(_)
SubCrLf(t) ==
    IF t = <<>> THEN <<>>
    ELSE IF Len(t) >= 2 /\ t[1] = "\r" /\ t[2] = "\n" THEN <<"\n">> \o SubCrLf(Drop(t, 2))
    ELSE <<t[1]>> \o SubCrLf(Tail(t))

\* re.sub(r'\n{3,}', '\n\n', t)
RECURSIVE SqueezeNewlines(_)
SqueezeNewlines(t) ==
    IF t = <<>> THEN <<>>
    ELSE LET n == RunLen(t, {"\n"})
         IN  IF n >= 3 THEN <<"\n", "\n">> \o SqueezeNewlines(Drop(t, n))
             ELSE <<t[1]>> \o SqueezeNewlines(Tail(t))

\* re.sub(r'[ \t]+', ' ', t)
RECURSIVE SqueezeBlanks(_)
SqueezeBlanks(t) ==
    IF t = <<>> THEN <<>>
    ELSE LET n == RunLen(t, {" ", "\t"})
         IN  IF n >= 1 THEN <<" ">> \o SqueezeBlanks(Drop(t, n))
             ELSE <<t[1]>> \o SqueezeBlanks(Tail(t))

clean_text(t) ==
    IF Falsy(t) THEN <<>> ELSE Strip(SqueezeBlanks(SqueezeNewlines(SubCrLf(t))), WS)

\* str.upper on the letters of the texts drawn
Upper(s) == [i \in 1..Len(s) |->
                IF \E k \in 1..26 : LowerAZ[k] = s[i]
                THEN UpperAZ[CHOOSE k \in 1..26 : LowerAZ[k] = s[i]] ELSE s[i]]

\* fragment_id.split("_")[0] if fragment_id else ""
Section(fragment_id) ==
    LET p == Find(fragment_id, <<"_">>, 0)
    IN  IF p = -1 THEN fragment_id ELSE SubSeq(fragment_id, 1, p)

\* A fragment's HTML is what the parser finds in it: `tag`, the text of the
\* method label (NULL when no label matches), and `text`, get_text of
\* .api-content-main or of the whole fragment.  The record is abridged to the
\* fields below.  `method` is bound only when a label matches; reading it in
\* the returned dict raises UnboundLocalError otherwise.
extract_from_fragment_html(fragment_html, fragment_id) ==
    IF fragment_html.tag = NULL
    THEN [raised |-> "UnboundLocalError"]
    ELSE [raised |-> "none",
          record |-> [fragment_id |-> fragment_id,
                      section |-> Section(fragment_id),
                      method |-> Upper(Strip(fragment_html.tag, WS)),
                      full_text |-> clean_text(fragment_html.text),
                      error |-> NULL]]

FAILED == <<"f", "a", "i", "l", "e", "d", "_", "t", "o", "_", "e", "x", "t", "r", "a", "c", "t", "_", "a", "f", "t", "e", "r", "_", "r", "e", "t", "r", "i", "e", "s">>
fail_rec(fid) ==
    [fragment_id |-> fid, section |-> <<>>, method |-> <<>>, full_text |-> <<>>, error |-> FAILED]

\* scrape_all_fragments up to the loop: the ids collected, the output file
\* opened with "w"
ScrapeStart(collected) ==
    /\ sf_pc = "idle"
    /\ \E found \in collected : fragment_ids' = found
    /\ OUTPUT_JSONL' = File(<<>>)
    /\ saved_total' = 0
    /\ sf_pc' = "loop"
    /\ UNCHANGED <<frag_idx, attempt, success, last_html, page, logged_total>>
    /\ UNCHANGED <<cwVars, pipeVars, ixVars, runVars>>

\* the fragment in hand is finished: it succeeded or its attempts are used up
FragmentOver == frag_idx = 0 \/ success \/ attempt = MAX_RETRIES

\* One pass of the inner loop, with the outer loop's steps around it: the
\* locals reset when a fragment begins, and fail_rec written when the last
\* attempt fails.  The page is broken (a call on it raises), the element is
\* absent (wait_for_selector times out), or it is present with its HTML.
Attempt(pages) ==
    /\ sf_pc = "loop"
    /\ LET begins == FragmentOver
           at == IF begins THEN frag_idx + 1 ELSE frag_idx
           no == IF begins THEN 1 ELSE attempt + 1
           before == IF begins THEN NoHtml ELSE last_html
       IN  /\ at <= Len(fragment_ids)
           /\ frag_idx' = at
           /\ attempt' = no
           /\ \E pg \in pages :
                LET fid == fragment_ids[at]
                    captured == pg.state = "present" /\ ~pg.html.empty
                    ex == extract_from_fragment_html(pg.html, fid)
                    saved == captured /\ ex.raised = "none" /\ ~Falsy(ex.record.full_text)
                IN  /\ page' = pg
                    /\ last_html' = IF pg.state = "present" THEN pg.html ELSE before
                    /\ success' = saved
                    /\ saved_total' = IF saved THEN saved_total + 1 ELSE saved_total
                    /\ OUTPUT_JSONL' =
                          IF saved THEN File(Append(OUTPUT_JSONL.lines, ex.record))
                          ELSE IF no = MAX_RETRIES
                          THEN File(Append(OUTPUT_JSONL.lines, fail_rec(fid)))
                          ELSE OUTPUT_JSONL
    /\ UNCHANGED <<fragment_ids, logged_total, sf_pc>>
    /\ UNCHANGED <<cwVars, pipeVars, ixVars, runVars>>

\* the loop is over: browser.close() and the closing log line
ScrapeFinish ==
    /\ sf_pc = "loop"
    /\ FragmentOver
    /\ frag_idx = Len(fragment_ids)
    /\ logged_total' = saved_total
    /\ page' = NoPage
    /\ sf_pc' = "done"
    /\ UNCHANGED <<OUTPUT_JSONL, fragment_ids, frag_idx, attempt, success, last_html, saved_total>>
    /\ UNCHANGED <<cwVars, pipeVars, ixVars, runVars>>

\* The scraper over every list of up to MaxFragments ids, the ids of a list
\* not all different, against a page that answers each attempt in any way
FragmentIds == {<<"a", "_", "b">>, <<"c">>}
Htmls ==
    {NoHtml,
     [empty |-> FALSE, tag |-> <<"g", "e", "t">>, text |-> <<"a", " ", "\t", " ", "b">>],
     [empty |-> FALSE, tag |-> <<"g", "e", "t">>, text |-> <<>>],
     [empty |-> FALSE, tag |-> NULL, text |-> <<"a">>],
     [empty |-> FALSE, tag |-> NULL, text |-> <<>>]}
Pages ==
    {[state |-> "broken", html |-> NoHtml], [state |-> "absent", html |-> NoHtml]}
        \cup {[state |-> "present", html |-> h] : h \in Htmls}

InitScrape ==
    /\ CWUnused
    /\ PipeUnused
    /\ IxUnused
    /\ RunUnused
    /\ OUTPUT_JSONL \in {NoFile, File(<<fail_rec(<<"c">>)>>)}
    /\ ScrapeLocalsInit
    /\ sf_pc = "idle"

NextScrape ==
    \/ ScrapeStart(SeqsUpTo(FragmentIds, MaxFragments))
    \/ Attempt(Pages)
    \/ ScrapeFinish

SpecScrape == InitScrape /\ [][NextScrape]_vars

\* ------------------------------------------------- previews of long chunks
\* The builder and retrieve side by side over one input file whose chunk texts
\* are longer than a preview, longer than the prompt budget, exactly as long
\* as a preview, and short; data/index starts empty or holds an earlier build
\* over the same file.
PvChars == <<"x", "y", "z", " ">>
PvText(n) == [k \in 1..n |-> PvChars[(k % 4) + 1]]
PvTemplate ==
    <<PvText(PreviewChars + 1), PvText(DEFAULT_MAX_CONTEXT_CHARS + PreviewChars),
      PvText(PreviewChars), <<"a">>, <<"b">>>>
PvInputs == { [k \in 1..n |-> IxRecord(k, PvTemplate[k])] : n \in 1..MaxIxRecs }

InitPreview ==
    /\ CWUnused
    /\ RunUnused
    /\ ScrapeUnused
    /\ LocalsInit
    /\ input = <<>>
    /\ cfg = <<CHUNK_WORDS, OVERLAP_WORDS>>
    /\ chunkDir = NoDir /\ BACKUP = NoFile /\ backup_by = "none"
    /\ jsonl_by = "dedup"
    /\ \E recs \in PvInputs :
          /\ OUT_JSONL = File(recs)
          /\ \/ FAISS_PATH = NoIndex /\ META_PATH = NoMeta
             \/ BuiltBefore(recs)
    /\ builds = 0
    /\ EMBED_MODEL = MODEL_NAME
    /\ batch_size = BATCH_SIZE
    /\ BuildIdle
    /\ QueryIdle

NextPreview ==
    \/ BuildStart
    \/ BuildBatch
    \/ SaveIndexOpen
    \/ SaveIndexWrite
    \/ SaveMetaOpen
    \/ SaveMetaLine
    \/ SaveMetaClose
    \/ RetrieveCall
    \/ RetrieveLoadMeta
    \/ RetrieveSearch

SpecPreview == InitPreview /\ [][NextPreview]_vars

\* ------------------------------------------------------- the query runner
\* The lists retrieve hands to build_prompt: texts shorter than, as long as and
\* longer than the small budget, with and without white space around them
PromptTexts == {<<>>, <<" ", "\n">>, <<"a", "b">>, <<" ", "a", "b", "c", "\n">>, <<"a", "b", "c", "d", " ">>, <<"a", "b", "c", "d", "e">>}
PromptLists == SeqsUpTo(PromptTexts, MaxShown)

RunnerInit(budgets, debug) ==
    /\ CWUnused
    /\ PipeUnused
    /\ ScrapeUnused
    /\ MAX_CONTEXT_CHARS \in budgets
    /\ DEBUG_RAW \in debug
    /\ run_pc = "idle"
    /\ user_prompt = <<>> /\ content = <<>> /\ preface = NULL /\ code = NULL
    /\ printed = <<>>

\* build_prompt over every list drawn, under the shipped and a small budget
InitPrompt == RunnerInit({DEFAULT_MAX_CONTEXT_CHARS, SmallBudget}, {FALSE})

NextPrompt == RunnerAsk(PromptLists)

SpecPrompt == InitPrompt /\ [][NextPrompt]_vars

\* The answers the remote side may generate.  With a fence: a preface or
\* none, the fence with or without a tag, the command, a closing fence or
\* none, a second block or none.
AnswerPrefaces == {<<>>, <<"R", "u", "n", ".">>, <<"R", "u", "n", ".", "\n">>, <<" ", "\r", "\n">>}
AnswerTags == {<<>>, <<"b", "a", "s", "h">>, <<"s", "h">>, <<"s", "h", "e", "l", "l">>, <<"S", "H">>, <<"p", "y">>}
AnswerBreaks == {<<>>, <<" ">>, <<"\n">>}
AnswerCommands == {<<>>, <<"l", "s">>, <<"c", "u", "r", "l", " ", "-", "u", " ", "a", ":", "K", " ", "x">>, <<"c", "u", "r", "l", " ", "-", "H", " ", "\"", "a", "u", "t", "h", "o", "r", "i", "z", "a", "t", "i", "o", "n", ":", " ", "b", "e", "a", "r", "e", "r", " ", "K", "\"">>,
                   <<"c", "u", "r", "l", " ", "-", "u", " ", " ", "a", ":", "b", ":", "K", " ", "-", "H", " ", "A", "u", "t", "h", "o", "r", "i", "z", "a", "t", "i", "o", "n", ":", "B", "e", "a", "r", "e", "r", "\t", "K", " ", "-", "u", " ", "r">>}
AnswerEnds == {<<" ">>, <<"\n", BACKTICK, BACKTICK, BACKTICK>>, <<BACKTICK, BACKTICK, BACKTICK, "\n", "o", "r", "\n", BACKTICK, BACKTICK, BACKTICK, "s", "h", "\n", "i", "d", "\n", BACKTICK, BACKTICK, BACKTICK>>}
FencedAnswers ==
    { p \o Fence \o t \o b \o c \o e :
        p \in AnswerPrefaces, t \in AnswerTags, b \in AnswerBreaks,
        c \in AnswerCommands, e \in AnswerEnds }

\* Without a fence: up to MaxLines lines, blank ones among them
AnswerLines == {<<" ">>, <<"R", "u", "n", " ", "h", "t", "t", "p">>, <<" ", "c", "u", "r", "l", " ", "-", "u", " ", "a", ":", "K", " ", "x">>, <<"s", "u", "d", "o", " ", "l", "s">>}
PlainAnswers == { Join(<<"\n">>, ls) : ls \in SeqsUpTo(AnswerLines, MaxLines) }

RunnerReplies ==
    {[key |-> TRUE, status |-> 0, content |-> <<>>],
     [key |-> TRUE, status |-> 500, content |-> <<>>]}
    \cup {[key |-> TRUE, status |-> 200, content |-> c] : c \in FencedAnswers \cup PlainAnswers}

\* The runner over one retrieved chunk and every answer drawn
InitRunner == RunnerInit({DEFAULT_MAX_CONTEXT_CHARS}, BOOLEAN)

NextRunner ==
    \/ RunnerAsk({<<>>, <<<<"a", "b">>>>})
    \/ RunnerReply(RunnerReplies)

SpecRunner == InitRunner /\ [][NextRunner]_vars

\* The three stages over data/clean, run and rerun one at a time and in any
\* order: the chunker and the deduplicator write deduped_chunks.jsonl, the
\* index builder reads it.
InitStages == InitPipe

NextStages ==
    \/ (bi_pc = "idle" /\ ChunkerStart)
    \/ ChunkerLine
    \/ ChunkerFinish
    \/ (bi_pc = "idle" /\ DedupNoDir)
    \/ (bi_pc = "idle" /\ DedupStart)
    \/ DedupScan
    \/ DedupFinish
    \/ (pc = "idle" /\ BuildStart)
    \/ BuildBatch
    \/ SaveIndexOpen
    \/ SaveIndexWrite
    \/ SaveMetaOpen
    \/ SaveMetaLine
    \/ SaveMetaClose

SpecStages == InitStages /\ [][NextStages]_vars

\* ---------------------------------------------------------------- C1 - C3
\* the windows of the call
NWords == Len(words)
WinStart(k) == chunks[k][1]
WinEnd(k) == chunks[k][2]

\* C1: the windows returned for N >= 1 words start at 0, end at N, leave no
\* offset of [0, N) uncovered, and each window starts exactly `overlap` words
\* before the end of the window before it.
C1_Coverage ==
    (cw_pc = "done" /\ NWords >= 1) =>
        /\ Len(chunks) >= 1
        /\ WinStart(1) = 0
        /\ WinEnd(Len(chunks)) = NWords
        /\ \A o \in 0..(NWords - 1) :
              \E k \in 1..Len(chunks) : WinStart(k) <= o /\ o < WinEnd(k)
        /\ \A k \in 1..(Len(chunks) - 1) :
              /\ WinStart(k + 1) = WinEnd(k) - overlap
              /\ WinStart(k + 1) <= WinEnd(k)

C1_Witness == cw_pc = "done" /\ Len(chunks) >= 3 /\ overlap >= 1 /\ NWords <= MaxWords

\* C2: each iteration that continues the loop leaves `start` strictly larger,
\* and the loop reaches its end.
C2_Terminates ==
    /\ [][(cw_pc = "loop" /\ cw_pc' = "loop") => start' > start]_vars
    /\ <>(cw_pc = "done")

C2_Witness == cw_pc = "loop" /\ start > 0 /\ Len(chunks) >= 2

\* C3: the windows are exactly [k*step, min(k*step + chunk_size, N)) for
\* k = 0, 1, ... with step = chunk_size - overlap, up to and including the
\* first one that ends at N; none is longer than chunk_size and only the
\* last may be shorter; no words give no window; 700 words under 300/50 give
\* [0,300) [250,550) [500,700).
C3_Windows ==
    cw_pc = "done" =>
        LET step == chunk_size - overlap
        IN  /\ NWords = 0 => chunks = <<>>
            /\ NWords >= 1 => Len(chunks) >= 1 /\ WinEnd(Len(chunks)) = NWords
            /\ \A k \in 1..Len(chunks) :
                  /\ WinStart(k) = (k - 1) * step
                  /\ WinEnd(k) = Min((k - 1) * step + chunk_size, NWords)
                  /\ WinEnd(k) - WinStart(k) <= chunk_size
                  /\ k < Len(chunks) => WinEnd(k) - WinStart(k) = chunk_size
                  /\ k < Len(chunks) => WinEnd(k) < NWords
            /\ (NWords = 700 /\ chunk_size = 300 /\ overlap = 50) =>
                  [k \in 1..Len(chunks) |-> <<WinStart(k), WinEnd(k)>>]
                      = << <<0, 300>>, <<250, 550>>, <<500, 700>> >>

C3_Witness ==
    cw_pc = "done" /\ NWords = 700 /\ chunk_size = 300 /\ overlap = 50 /\ Len(chunks) = 3

\* ---------------------------------------------------------------- C4 - C6
\* the combined file as the chunker is writing or has written it
ChunkerWrote == jsonl_by = "chunker"
ChunkerDone == pc = "idle" /\ finished = "chunker" /\ jsonl_by = "chunker"
Emitted == OUT_JSONL.lines

\* C4: no two chunks emitted in one chunker run carry the same chunk_id.
C4_UniqueChunkIds ==
    ChunkerWrote =>
        \A i, j \in 1..Len(Emitted) : i # j => Emitted[i].chunk_id # Emitted[j].chunk_id

C6_TextFieldChunked ==
    (pc = "ch_lines" /\ line_no >= 1) =>
        LET rec == input[line_no]
        IN  (rec # MALFORMED /\ words_from_text(rec.text) # <<>>) =>
                per_doc_counts[Len(per_doc_counts)][2] >= 1

\* ---------------------------------------------------------------- C7 - C10
DedupDone == pc = "idle" /\ finished = "dedup" /\ jsonl_by = "dedup"
Scanned == SortedNames(GlobJson(chunkDir.files))
ScannedFile(i) == chunkDir.files[Scanned[i]]
Readable(i) == ScannedFile(i) # UNREADABLE
Trimmed(i) == Strip(IF ScannedFile(i).text = NULL THEN <<>> ELSE ScannedFile(i).text, WS)
HasText(i) == Readable(i) /\ Trimmed(i) # <<>>
SameText(i, j) == HasText(i) /\ HasText(j) /\ Trimmed(i) = Trimmed(j)
FirstOccurrences == {i \in 1..Len(Scanned) : HasText(i) /\ \A j \in 1..(i - 1) : ~SameText(j, i)}
Repeats == {i \in 1..Len(Scanned) : HasText(i) /\ \E j \in 1..(i - 1) : SameText(j, i)}
NthFirst(k) == CHOOSE p \in FirstOccurrences : Cardinality({q \in FirstOccurrences : q <= p}) = k

\* C7: the deduplicator's output is the scanned chunks that have a non-empty
\* trimmed text no earlier scanned chunk has, in scan order, each with its
\* trimmed text.
C7_FirstOccurrences ==
    DedupDone =>
        /\ Len(OUT_JSONL.lines) = Cardinality(FirstOccurrences)
        /\ \A k \in 1..Len(OUT_JSONL.lines) :
              /\ OUT_JSONL.lines[k].chunk_id = ScannedFile(NthFirst(k)).chunk_id
              /\ OUT_JSONL.lines[k].text = Trimmed(NthFirst(k))
        /\ \A a, b \in 1..Len(OUT_JSONL.lines) :
              a # b => OUT_JSONL.lines[a].text # OUT_JSONL.lines[b].text

C7_Witness ==
    /\ DedupDone
    /\ Len(Scanned) >= 3
    /\ \E i, j \in 1..Len(Scanned) :
          i < j /\ SameText(i, j) /\ ScannedFile(i).text # ScannedFile(j).text
    /\ \E i \in 1..Len(Scanned) : Readable(i) /\ ~HasText(i)

\* the chunker's combined file as the deduplicator backed it up
Produced == BACKUP.lines
ProducedAt(id) == CHOOSE p \in 1..Len(Produced) : Produced[p].chunk_id = id

\* C8: after a chunker run, the deduplicator emits the chunks it keeps in the
\* order in which the chunker produced them (fragment order, then chunk_index
\* order within a fragment).
C8_ProductionOrder ==
    (/\ DedupDone
     /\ backup_by = "chunker"
     /\ \A i, j \in 1..Len(Produced) : i # j => Produced[i].chunk_id # Produced[j].chunk_id) =>
        \A a, b \in 1..Len(OUT_JSONL.lines) :
            a < b => ProducedAt(OUT_JSONL.lines[a].chunk_id)
                        < ProducedAt(OUT_JSONL.lines[b].chunk_id)

\* the loop body applied to the records of `lines`, in their order
RECURSIVE ScanLines(_, _, _)
ScanLines(acc, lines, k) ==
    IF k > Len(lines) THEN acc ELSE ScanLines(ScanOne(acc, Digits(k), lines[k]), lines, k + 1)

\* C9: a deduplicator run that follows a complete deduplicator run leaves the
\* output of that run unchanged, and scanning the output's own records in
\* their order keeps every one of them unchanged.

C9_Idempotent ==
    DedupDone =>
        /\ backup_by = "dedup" => OUT_JSONL = BACKUP
        /\ ScanLines([out |-> <<>>, seen |-> <<>>, unique |-> 0], OUT_JSONL.lines, 1).out
              = OUT_JSONL.lines

C9_Witness ==
    /\ DedupDone /\ backup_by = "dedup"
    /\ Len(OUT_JSONL.lines) >= 2
    /\ Cardinality(Repeats) >= 1

\* the scanned chunks that share the text of the first occurrence p
GroupSize(p) == Cardinality({i \in 1..Len(Scanned) : SameText(p, i)})
Groups == {p \in FirstOccurrences : GroupSize(p) > 1}

\* C10: total is the number of chunks scanned, unique the number kept, the
\* reported duplicates the number of scanned chunks whose non-empty trimmed
\* text an earlier scanned chunk has, and every group of more than one chunk
\* is reported with its first chunk and the number of its further members.
C10_AuditFigures ==
    DedupDone =>
        /\ report.total = Len(Scanned)
        /\ report.unique = Len(OUT_JSONL.lines)
        /\ report.duplicates = Cardinality(Repeats)
        /\ Len(report.groups) = Cardinality(Groups)
        /\ \A p \in Groups :
              \E k \in 1..Len(report.groups) :
                  /\ report.groups[k].representative = Scanned[p]
                  /\ report.groups[k].count = GroupSize(p) - 1

\* -------------------------------------------------------------- C11 - C12
\* build_index has left its loop: its results are complete
BuildLoopDone == bi_pc \in {"write_index", "open_meta", "write_meta"} \/ bi_out = "saved"

\* the row and the metadata of input record k, whatever batch it falls in
RowOf(rec) == Normalize(Encode(MODEL_NAME, rec.text))

\* C11: for n records and any batch size >= 1 build_index gives the same
\* result: exactly n vectors and n metadata records, the vector at position k
\* and metadata line k belonging to input record k, as when every record is
\* its own batch; the files a completed save_index leaves hold the same.
C11_BatchIndependent ==
    BuildLoopDone =>
        /\ Len(VStack(vectors)) = Len(records)
        /\ Len(metas) = Len(records)
        /\ \A k \in 1..Len(records) :
              /\ VStack(vectors)[k] = RowOf(records[k])
              /\ metas[k] = MetaOf(records[k])
        /\ VStack(vectors) = build_index(records, 1).vectors
        /\ metas = build_index(records, 1).metas
        /\ bi_out = "saved" =>
              /\ FAISS_PATH.vectors = VStack(vectors)
              /\ META_PATH.lines = metas

\* a three-record input built in batches of two (the last batch is short) and saved
C11_Witness ==
    /\ bi_out = "saved"
    /\ Len(records) = 3
    /\ batch_size = 2
    /\ Len(vectors) = 2
    /\ Len(FAISS_PATH.vectors) = 3

\* a step in which retrieve is entered (by a caller or by ask_question)
RetrieveStarts ==
    /\ rq_pc = "idle"
    /\ ask_pc = "idle"
    /\ <<retrieveVars, askVars>>' # <<retrieveVars, askVars>>

\* C12: a build over zero chunks publishes an empty index and an empty
\* metadata file: a retrieve entered after such a build finds both files,
\* loads an index without vectors and metadata without lines (and so answers
\* with zero results), not an error and not an index built earlier.
C12_ZeroChunkBuild ==
    [][(bi_out = "no_chunks" /\ RetrieveStarts) =>
          /\ rq_pc' = "read_meta"
          /\ r_index'.vectors = <<>>
          /\ META_PATH.lines = <<>>]_vars

\* -------------------------------------------------------------- C13 - C17
\* a step in which retrieve returns its list
RetrieveReturns == rq_pc = "search" /\ rq_out' = "returned"

\* the index and the metadata the call loaded are those of one build: row p
\* is the row of the chunk metadata line p describes
LoadedOneBuild ==
    /\ Len(r_metas) = Len(r_index.vectors)
    /\ \A p \in 1..Len(r_metas) : r_index.vectors[p] = RowOf([text |-> r_metas[p].text_preview])

\* C13: retrieve called with the exact text of a chunk of the built index
\* returns that chunk as its first result, with score 1.0.
C13_SelfRetrieval ==
    [][(RetrieveReturns /\ top_k >= 1 /\ LoadedOneBuild) =>
          \A p \in 1..Len(r_metas) :
              r_metas[p].text_preview = query =>
                  /\ results' # <<>>
                  /\ results'[1].chunk_id = r_metas[p].chunk_id
                  /\ results'[1].score = Unit * Unit]_vars

\* the inner product of the row at position p (0-based) of the loaded index
\* with the query of the call
ScoreAt(p) == Dot(r_index.vectors[p + 1], QueryEmbedding(EMBED_MODEL, query))

\* C14: for every query and every positive top_k, retrieve returns at most
\* top_k results, they are the entries of largest inner product, their scores
\* do not increase along the list, and entries of equal score come in
\* ascending insertion position.
C14_TopKOrder ==
    [][(RetrieveReturns /\ top_k >= 1 /\ LoadedOneBuild) =>
          LET n == Len(r_index.vectors)
              got == results'
              pos == SelectSeq(ids', LAMBDA idx : idx >= 0)
          IN  /\ Len(got) <= top_k
              /\ Len(got) = Min(top_k, n)
              /\ Len(pos) = Len(got)
              /\ \A a \in 1..Len(got) : got[a].score = ScoreAt(pos[a])
              /\ \A p \in 0..(n - 1) :
                    (\A a \in 1..Len(pos) : pos[a] # p) =>
                        \A a \in 1..Len(pos) : ScoreAt(pos[a]) >= ScoreAt(p)
              /\ \A a, b \in 1..Len(got) :
                    a < b => /\ got[a].score >= got[b].score
                             /\ got[a].score = got[b].score => pos[a] < pos[b]]_vars

\* C15: retrieve entered while the index file or the metadata file is absent
\* (never built, or only one of the two written) raises FileNotFoundError at
\* once and returns no list.
C15_NotFound ==
    [][(RetrieveStarts /\ (~FAISS_PATH.exists \/ ~META_PATH.exists)) =>
          /\ rq_out' = "FileNotFoundError"
          /\ rq_pc' = "idle"
          /\ results' = <<>>]_vars

\* the call was refused while the index file was there and the metadata not yet
C15_Witness ==
    /\ rq_out = "FileNotFoundError"
    /\ FAISS_PATH.exists
    /\ ~META_PATH.exists

\* the exceptions of the InvalidArgument class
InvalidArgument == {"ValueError", "InvalidArgument"}

\* C16: retrieve rejects an invalid call before it searches: entered with both
\* files present and with top_k <= 0 or a query that is empty after trimming,
\* it raises an InvalidArgument-class error at once; with a query row of
\* another dimension than the index it raises instead of returning a list.
C16_RejectsInvalid ==
    [][/\ (RetrieveStarts /\ ~Missing(FAISS_PATH, META_PATH)
              /\ (top_k' <= 0 \/ Strip(query', WS) = <<>>)) =>
             /\ rq_pc' = "idle"
             /\ rq_out' \in InvalidArgument
             /\ results' = <<>>
       /\ (rq_pc = "search" /\ rq_pc' = "idle"
              /\ Len(QueryEmbedding(EMBED_MODEL, query)) # r_index.d) =>
             /\ rq_out' # "returned"
             /\ results' = <<>>]_vars

\* the positions among `found` that lie within the metadata loaded
InMetas(found) == SelectSeq(found, LAMBDA idx : 0 <= idx /\ idx < Len(r_metas))

\* C17: every result retrieve returns belongs to a position p the search
\* returned with 0 <= p < number of metadata records loaded, in the order of
\* the search; a position that is negative or beyond the metadata is passed
\* over without an exception, the list being shorter or empty.
C17_LivePositions ==
    [][(rq_pc = "search" /\ rq_pc' = "idle" /\ top_k >= 1
            /\ Len(QueryEmbedding(EMBED_MODEL, query)) = r_index.d) =>
          LET live == InMetas(ids')
          IN  /\ rq_out' = "returned"
              /\ Len(results') = Len(live)
              /\ \A k \in 1..Len(live) :
                    /\ results'[k].chunk_id = r_metas[live[k] + 1].chunk_id
                    /\ results'[k].text = r_metas[live[k] + 1].text_preview
                    /\ results'[k].score = ScoreAt(live[k])]_vars

\* the search returned a position beyond the metadata loaded and the padding
\* -1, and retrieve returned the one result left
C17_Witness ==
    /\ rq_out = "returned"
    /\ \E a, b \in 1..Len(ids) : ids[a] = -1 /\ ids[b] >= 0
    /\ Len(SelectSeq(ids, LAMBDA idx : idx >= 0)) = 2
    /\ Len(results) = 1

\* -------------------------------------------------------------- C18 - C20
\* C18: a retrieve that runs while a build is saving never sees an index under
\* construction: the index file it reads is whole, and the metadata it then
\* loads is that of the same completed build, line p describing row p.
C18_AtomicPublish ==
    [][/\ RetrieveStarts => rq_out' # "RuntimeError"
       /\ (rq_pc = "read_meta" /\ rq_pc' = "search") =>
             /\ META_PATH.build = r_index.build
             /\ Len(r_metas') = Len(r_index.vectors)
             /\ \A p \in 1..Len(r_metas') :
                   p <= Len(r_index.vectors) =>
                       r_index.vectors[p] = RowOf([text |-> r_metas'[p].text_preview])]_vars

\* C19: when a write of save_index fails or is interrupted part-way, neither
\* final path is left with a truncated or partly written file: faiss.index is
\* whole, and meta.jsonl holds the lines of an earlier build or all the lines
\* of this one.
C19_NoPartialFile ==
    bi_out = "interrupted" =>
        /\ FAISS_PATH.exists => FAISS_PATH.whole
        /\ META_PATH.exists => (META_PATH.build # builds \/ META_PATH.lines = metas)

\* C20: whatever becomes of the generation call (an exception, a timeout, a
\* status other than 200), ask_question still answers its caller with the
\* retrieval results already computed, and the index and the metadata are
\* left as they were.
C20_RetrievalSurvives ==
    [][(ask_pc = "generate" /\ ask_pc' = "idle") =>
          /\ response'.kind = "answer"
          /\ response'.retrieved = RetrievedInfo(results)
          /\ indexFiles' = indexFiles]_vars

\* -------------------------------------------------------------- C21
\* the input lines json.loads accepts
WellFormed == SelectSeq(input, LAMBDA rec : rec # MALFORMED)

\* C21: a malformed input line is skipped without aborting the chunker: every
\* well-formed record before and after it is processed, in input order, and
\* the figure printed as fragments processed counts the processed records
\* only, the skipped lines being no part of it.
C21_SkippedApart ==
    ChunkerDone =>
        /\ Len(per_doc_counts) = Len(WellFormed)
        /\ \A f \in 1..Len(WellFormed) :
              \E p \in 1..Len(per_doc_counts) :
                  per_doc_counts[p] = <<RecFragment(WellFormed[f]), Len(RecChunks(WellFormed[f], cfg))>>
        /\ processed = Len(WellFormed)

\* -------------------------------------------------------------- C22
\* the context of the prompt built: what lies between its fixed parts
PromptContext ==
    SubSeq(user_prompt, Len(PromptHead(query)) + 1, Len(user_prompt) - Len(PromptTail))
TrimmedText(k) == Strip(results[k].text, WS)
BlockHead(k) ==
    <<"[">> \o Digits(k) \o <<"]", " ">> \o Str(results[k].chunk_id) \o <<" ", "-", " ">> \o Str(results[k].title)
BlockText(k) ==
    IF Len(TrimmedText(k)) > MAX_CONTEXT_CHARS
    THEN SubSeq(TrimmedText(k), 1, MAX_CONTEXT_CHARS) \o TruncationMarker
    ELSE TrimmedText(k)

\* C22: build_prompt renders the k results retrieved as k blocks numbered
\* [1]..[k] in retrieval order, each `[i] chunk_id - title`, a line break and
\* the text, joined by one blank line; the text is the trimmed text cut to
\* MAX_CONTEXT_CHARS characters and followed by the truncation marker if and
\* only if the trimmed text is longer than MAX_CONTEXT_CHARS, and the trimmed
\* text unchanged otherwise.
C22_PromptBlocks ==
    run_pc = "called" =>
        /\ user_prompt = PromptHead(query) \o PromptContext \o PromptTail
        /\ PromptContext =
              Join(<<"\n", "\n">>, [k \in 1..Len(results) |-> BlockHead(k) \o <<"\n">> \o BlockText(k)])

\* two blocks under the small budget: a text cut, and a text left whole that
\* is exactly as long as the budget once trimmed
C22_Witness ==
    /\ run_pc = "called"
    /\ MAX_CONTEXT_CHARS = SmallBudget
    /\ Len(results) = 2
    /\ Len(TrimmedText(1)) > MAX_CONTEXT_CHARS
    /\ Len(TrimmedText(2)) = MAX_CONTEXT_CHARS
    /\ TrimmedText(2) # results[2].text

\* -------------------------------------------------------------- C23 - C24
\* the pass is over and there was an answer to extract from
Extracted == run_pc = "done" /\ content # <<>>

\* the first fence of the answer, the word that follows it, and the first
\* fence after that word
OpeningFence == Find(content, Fence, 0)
InfoWord == SubSeq(content, OpeningFence + 4,
                   OpeningFence + 3 + RunLenNot(Drop(content, OpeningFence + 3), WS \cup {BACKTICK}))
ClosingFence == Find(content, Fence, OpeningFence + 3 + Len(InfoWord))
HasBlock == OpeningFence # -1 /\ ClosingFence # -1
ShellTags == {<<"b", "a", "s", "h">>, <<"s", "h">>, <<"s", "h", "e", "l", "l">>}
Absent(v) == v = NULL

\* C23: when the answer holds a fenced block, the preface is what precedes
\* the first opening fence, trimmed, and absent when that is empty; the
\* command is the trimmed content between that fence and its closing fence,
\* and when the fence is tagged bash, sh or shell the tag is no part of it.
C23_FirstFencedBlock ==
    (Extracted /\ HasBlock) =>
        LET before == Strip(SubSeq(content, 1, OpeningFence), WS)
        IN  /\ preface = IF before = <<>> THEN NULL ELSE before
            /\ InfoWord \in ShellTags =>
                  code = Strip(SubSeq(content, OpeningFence + 4 + Len(InfoWord), ClosingFence), WS)
            /\ (\A t \in ShellTags : ~StartsAtFolded(InfoWord, 0, t)) =>
                  code = Strip(SubSeq(content, OpeningFence + 4, ClosingFence), WS)

\* line k of `lines` begins with a command-starting token
BeginsCommand(lines, k) == \E t \in CommandStarts : StartsAt(lines[k], 0, t)

\* C24: when the answer holds no complete fenced block, the first of its
\* first three non-blank lines that begins with curl, http, wget, sudo or ssh
\* is the command, whole, and there is no preface; when none of the three
\* does, the trimmed answer is the preface and there is no command; a line
\* after the third non-blank line never becomes the command.
C24_Fallbacks ==
    (Extracted /\ ~HasBlock) =>
        LET nonblank == NonBlankLines(content)
            leading == 1..Min(3, Len(nonblank))
        IN  IF \E k \in leading : BeginsCommand(nonblank, k)
            THEN /\ Absent(preface)
                 /\ \E k \in leading :
                       /\ BeginsCommand(nonblank, k)
                       /\ \A j \in 1..(k - 1) : ~BeginsCommand(nonblank, j)
                       /\ code = nonblank[k]
            ELSE /\ Absent(code)
                 /\ preface = IF Strip(content, WS) = <<>> THEN NULL ELSE Strip(content, WS)

\* the third line is the command although the fourth begins with a token too
C24_Witness ==
    /\ Extracted /\ ~HasBlock
    /\ LET nonblank == NonBlankLines(content)
       IN  /\ Len(nonblank) = 4
           /\ ~BeginsCommand(nonblank, 1) /\ ~BeginsCommand(nonblank, 2)
           /\ BeginsCommand(nonblank, 3) /\ BeginsCommand(nonblank, 4)
           /\ code = nonblank[3]
           /\ nonblank[4] # nonblank[3]

\* -------------------------------------------------------------- C25 - C26
\* s holds a `-u user:secret` pair: -u, white space, a user name without
\* colon, a colon and a secret right after it
HasUserPair(s) ==
    \E a \in 1..(Len(s) - 1) :
        /\ s[a] = "-" /\ s[a + 1] = "u"
        /\ \E b \in (a + 3)..Len(s) :
              /\ \A i \in (a + 2)..(b - 1) : s[i] \in WS
              /\ s[b] \notin WS \cup {":"}
              /\ \E c \in (b + 1)..(Len(s) - 1) :
                    /\ \A i \in b..(c - 1) : s[i] \notin WS \cup {":"}
                    /\ s[c] = ":"
                    /\ s[c + 1] \notin WS

\* s holds an `Authorization: Bearer token` value, in any case: the header
\* name, white space or none, the scheme, white space and a token
HasBearerValue(s) ==
    \E a \in 0..Len(s) :
        /\ StartsAtFolded(s, a, <<"a", "u", "t", "h", "o", "r", "i", "z", "a", "t", "i", "o", "n", ":">>)
        /\ \E b \in (a + 14)..Len(s) :
              /\ \A i \in (a + 15)..b : s[i] \in WS
              /\ StartsAtFolded(s, b, <<"b", "e", "a", "r", "e", "r">>)
              /\ \E c \in (b + 7)..(Len(s) - 1) :
                    /\ \A i \in (b + 7)..c : s[i] \in WS
                    /\ s[c + 1] \notin WS

Redacted(x) == redact_possible_secrets_from_code(x)
RedactLaw(x) ==
    LET once == Redacted(x)
    IN  /\ Redacted(once) = once
        /\ (~HasUserPair(x) /\ ~HasBearerValue(x)) => once = x

\* C25: redaction is idempotent and local: redacting twice gives what
\* redacting once gives, and a string that holds no `-u user:secret` pair and
\* no `Authorization: Bearer` value comes back unchanged -- for the command
\* the runner redacts and for the whole answer it came from.
C25_RedactIdempotent ==
    Extracted =>
        /\ RedactLaw(content)
        /\ ~Absent(code) => RedactLaw(code)

\* a command with two pairs and a bearer value was redacted, and a command
\* without any was printed as it was
C25_Witness ==
    /\ Extracted /\ ~Absent(code)
    /\ HasUserPair(code) /\ HasBearerValue(code)
    /\ Redacted(code) # code
    /\ printed[Len(printed)] = Shown("code", Redacted(code))

\* what the caller of either query path is given as a command
CommandsShown ==
    {printed[i].text : i \in {j \in 1..Len(printed) : printed[j].what = "code"}}
    \cup (IF response.kind = "answer" /\ ~Falsy(extract_preface_and_code(response.answer).code)
          THEN {extract_preface_and_code(response.answer).code} ELSE {})

\* C26: every command of a generated answer reaches the caller redacted, on
\* the runner and on the ask interface alike: what the caller is given holds
\* ***REDACTED*** in the place of every secret, so that redacting it again
\* changes nothing and answers that differ in the secret alone look the same.
C26_CommandsRedacted ==
    \A x \in CommandsShown : Redacted(x) = x

\* -------------------------------------------------------------- C27
\* the entries of the index a completed build left: one per metadata line
IndexEntries == META_PATH.lines
EntryText(k) == Strip(IndexEntries[k].text_preview, WS)

\* C27: in whatever order the chunker, the deduplicator and the index builder
\* are run and rerun, an index the builder has produced never holds two
\* entries with the same trimmed text.
C27_IndexDeduplicated ==
    bi_out = "saved" =>
        \A i, j \in 1..Len(IndexEntries) : i # j => EntryText(i) # EntryText(j)

\* -------------------------------------------------------------- C28
\* the deduplicator has completed a run that followed a chunker run
ChunkedThenDeduped == DedupDone /\ backup_by = "chunker"
ProducedText(k) == Strip(Produced[k].text, WS)
KeptLines(text) == {k \in 1..Len(OUT_JSONL.lines) : OUT_JSONL.lines[k].text = text}

\* C28: after the chunker and then the deduplicator have run, every non-empty
\* trimmed chunk text the chunker produced is in deduped_chunks.jsonl exactly
\* once: no text is lost between the two stages, whatever slugs and fragment
\* ids the records have.
C28_NoTextLost ==
    ChunkedThenDeduped =>
        \A k \in 1..Len(Produced) :
            ProducedText(k) # <<>> => Cardinality(KeptLines(ProducedText(k))) = 1

\* -------------------------------------------------------------- C29
\* the chunk of the input file a result stands for
ChunkOf(r) ==
    OUT_JSONL.lines[CHOOSE k \in 1..Len(OUT_JSONL.lines) : OUT_JSONL.lines[k].chunk_id = r.chunk_id]
ShownWhole(r) ==
    PromptText(r, DEFAULT_MAX_CONTEXT_CHARS) = Strip(r.text, WS)
NoMarker(rs) ==
    Find(build_prompt(query, rs, DEFAULT_MAX_CONTEXT_CHARS), TruncationMarker, 0) = -1

\* C29: over an index and metadata the builder wrote, the text of every
\* result retrieve returns is the stored preview, the first 400 characters of
\* the chunk's text and never more; so build_prompt under the default budget
\* of 1500 characters cuts no text and appends no truncation marker.
C29_PreviewsOnly ==
    [][RetrieveReturns =>
          /\ \A k \in 1..Len(results') :
                /\ Len(results'[k].text) <= PreviewChars
                /\ results'[k].text = SubSeq(ChunkOf(results'[k]).text, 1,
                                            Min(PreviewChars, Len(ChunkOf(results'[k]).text)))
                /\ ShownWhole(results'[k])
          /\ NoMarker(results')]_vars

\* retrieve has returned the preview of a chunk whose text is longer than the
\* default budget
C29_Witness ==
    /\ rq_out = "returned"
    /\ \E k \in 1..Len(results) :
          /\ Len(ChunkOf(results[k]).text) > DEFAULT_MAX_CONTEXT_CHARS
          /\ Len(results[k].text) = PreviewChars

\* -------------------------------------------------------------- C30
ScrapedRecords == OUTPUT_JSONL.lines
IsSuccess(rec) == rec.error = NULL
\* a pass of the inner loop was made in the step
Attempted == <<frag_idx, attempt>>' # <<frag_idx, attempt>>
\* the pass captured HTML whose text holds more than white space
CapturedText ==
    /\ page'.state = "present" /\ ~page'.html.empty
    /\ \E k \in 1..Len(page'.html.text) : page'.html.text[k] \notin WS
\* the records written for the fragments finished so far
C30_OnePerFragment ==
    sf_pc \in {"loop", "done"} =>
        /\ Len(ScrapedRecords) = IF FragmentOver THEN frag_idx ELSE frag_idx - 1
        /\ \A k \in 1..Len(ScrapedRecords) : ScrapedRecords[k].fragment_id = fragment_ids[k]
        /\ sf_pc = "done" =>
              /\ Len(ScrapedRecords) = Len(fragment_ids)
              /\ logged_total = Cardinality({k \in 1..Len(ScrapedRecords) : IsSuccess(ScrapedRecords[k])})
\* what a pass writes, and which pass follows which
C30_Passes ==
    Attempted =>
        /\ <<frag_idx, attempt>>' =
              IF FragmentOver THEN <<frag_idx + 1, 1>> ELSE <<frag_idx, attempt + 1>>
        /\ attempt' <= MAX_RETRIES
        /\ IF CapturedText
           THEN /\ success'
                /\ Len(ScrapedRecords') = Len(ScrapedRecords) + 1
                /\ IsSuccess(ScrapedRecords'[frag_idx'])
                /\ ScrapedRecords'[frag_idx'].full_text # <<>>
           ELSE /\ ~success'
                /\ IF attempt' = MAX_RETRIES
                   THEN /\ Len(ScrapedRecords') = Len(ScrapedRecords) + 1
                        /\ ScrapedRecords'[frag_idx'] = fail_rec(fragment_ids[frag_idx'])
                   ELSE ScrapedRecords' = ScrapedRecords

\* C30: scrape_all_fragments writes one record per collected fragment id, in
\* collection order: a success record on the first attempt that captures HTML
\* with a non-empty full text, no attempt following it for that fragment, or
\* one failure record marked failed_to_extract_after_retries after exactly
\* MAX_RETRIES attempts without success; the total reported is the number of
\* success records.
C30_OneRecordPerFragment == [][C30_Passes /\ C30_OnePerFragment']_vars

====
